---- MODULE Spec2Model ----
(***************************************************************************)
(* Model of the property cash-flow backend: the numeric value extractor,   *)
(* the raw-text field parser and the totals aggregator of                  *)
(* backend/routers/ocr_router.py, and the property / document handlers of  *)
(* backend/routers/property_router.py.                                     *)
(*                                                                         *)
(* Python str values are TLA+ strings, taken apart with Len, Head, Tail,   *)
(* SubSeq and \o.  Python floats are exact decimals                        *)
(* [m |-> mantissa, e |-> fraction digits], normalised so that m has no    *)
(* trailing zero while e > 0; every comparison                             *)
(* the code makes on floats (==, > 0, is None) is between parsed literals  *)
(* or against zero, where the decimal and the binary value agree.          *)
(***************************************************************************)
EXTENDS Integers, Sequences, FiniteSets, TLC

VARIABLES
    properties,   \* the "properties" collection: property id -> record
    nextId,       \* the next fresh property id (ObjectId) and document id (uuid4)
    response,     \* what the last request returned
    numArg,       \* argument handed to extract_numeric_value
    numResult,    \* what extract_numeric_value returned for numArg
    aggregated,   \* what the last aggregation run returned
    runs,         \* number of aggregation runs made on the document list
    requests,     \* the requests in flight: where each handler is and what it holds
    users,        \* the users collection, one email per stored user
    textract,     \* what the OCR engine did with the uploaded file
    extracted     \* the extracted_data and statement_date built from it

vars == <<properties, nextId, response, numArg, numResult, aggregated, runs,
          requests, users, textract, extracted>>

sysVars == <<properties, nextId, response>>
numVars == <<numArg, numResult>>
aggVars == <<aggregated, runs>>
reqVars == <<requests, users>>
textVars == <<textract, extracted>>

-----------------------------------------------------------------------------
(* Characters and strings *)

DigitChars == {"0", "1", "2", "3", "4", "5", "6", "7", "8", "9"}

DigitVal(c) ==
    CASE c = "0" -> 0 [] c = "1" -> 1 [] c = "2" -> 2 [] c = "3" -> 3
      [] c = "4" -> 4 [] c = "5" -> 5 [] c = "6" -> 6 [] c = "7" -> 7
      [] c = "8" -> 8 [] c = "9" -> 9

DigitChar(n) ==
    CASE n = 0 -> "0" [] n = 1 -> "1" [] n = 2 -> "2" [] n = 3 -> "3"
      [] n = 4 -> "4" [] n = 5 -> "5" [] n = 6 -> "6" [] n = 7 -> "7"
      [] n = 8 -> "8" [] n = 9 -> "9"

\* str.strip() and the regex class \s: the whitespace characters in use
SpaceChars == {" ", "\t", "\n"}

UpperToLower ==
    [A |-> "a", B |-> "b", C |-> "c", D |-> "d", E |-> "e", F |-> "f", G |-> "g",
     H |-> "h", I |-> "i", J |-> "j", K |-> "k", L |-> "l", M |-> "m", N |-> "n",
     O |-> "o", P |-> "p", Q |-> "q", R |-> "r", S |-> "s", T |-> "t", U |-> "u",
     V |-> "v", W |-> "w", X |-> "x", Y |-> "y", Z |-> "z"]

LowerChar(c) == IF c \in DOMAIN UpperToLower THEN UpperToLower[c] ELSE c

\* the Python slice s[a-1:b], for a >= 1
Slice(s, a, b) ==
    IF a > Len(s) \/ b < a THEN ""
    ELSE SubSeq(s, a, IF b > Len(s) THEN Len(s) ELSE b)

\* str.lower()
RECURSIVE Lower(_)
Lower(s) == IF s = "" THEN "" ELSE LowerChar(Head(s)) \o Lower(Tail(s))

\* str.replace(c, "")
RECURSIVE RemoveChars(_, _)
RemoveChars(s, cs) ==
    IF s = "" THEN ""
    ELSE IF Head(s) \in cs THEN RemoveChars(Tail(s), cs)
    ELSE Head(s) \o RemoveChars(Tail(s), cs)

RECURSIVE LStrip(_)
LStrip(s) ==
    IF s = "" THEN ""
    ELSE IF Head(s) \in SpaceChars THEN LStrip(Tail(s)) ELSE s

RECURSIVE RStrip(_)
RStrip(s) ==
    IF s = "" THEN ""
    ELSE IF Slice(s, Len(s), Len(s)) \in SpaceChars THEN RStrip(Slice(s, 1, Len(s) - 1)) ELSE s

\* str.strip()
Strip(s) == RStrip(LStrip(s))

\* the Python test `sub in s`
Contains(s, sub) ==
    \E i \in 1..(Len(s) - Len(sub) + 1) : Slice(s, i, i + Len(sub) - 1) = sub

\* str.startswith
StartsWith(s, pre) == Len(s) >= Len(pre) /\ Slice(s, 1, Len(pre)) = pre

-----------------------------------------------------------------------------
(* Python values: None, float, str *)

RECURSIVE Normalise(_)
Normalise(d) ==
    IF d.e > 0 /\ d.m % 10 = 0 THEN Normalise([m |-> d.m \div 10, e |-> d.e - 1])
    ELSE d

Zero == [m |-> 0, e |-> 0]

RECURSIVE Pow10(_)
Pow10(n) == IF n = 0 THEN 1 ELSE 10 * Pow10(n - 1)

Max(a, b) == IF a >= b THEN a ELSE b

DecAdd(a, b) ==
    LET e == Max(a.e, b.e)
    IN  Normalise([m |-> a.m * Pow10(e - a.e) + b.m * Pow10(e - b.e), e |-> e])

DecAbs(a) == [m |-> IF a.m < 0 THEN 0 - a.m ELSE a.m, e |-> a.e]

DecNeg(a) == [m |-> 0 - a.m, e |-> a.e]

\* a whole number of currency units
Dec(n) == [m |-> n, e |-> 0]

PyNone == [t |-> "none", s |-> "", v |-> Zero]

PyStr(s) == [t |-> "str", s |-> s, v |-> Zero]

PyFloat(d) == [t |-> "float", s |-> "", v |-> d]

\* an exception leaving the function
PyRaise == [t |-> "raise", s |-> "", v |-> Zero]

\* Python truthiness of a value
Truthy(x) ==
    CASE x.t = "none" -> FALSE
      [] x.t = "str" -> x.s # ""
      [] x.t = "float" -> x.v.m # 0
      [] OTHER -> TRUE

-----------------------------------------------------------------------------
(* extract_numeric_value *)

RECURSIVE DigitsValue(_)
DigitsValue(ds) ==
    IF ds = "" THEN 0
    ELSE 10 * DigitsValue(Slice(ds, 1, Len(ds) - 1)) + DigitVal(Slice(ds, Len(ds), Len(ds)))

\* length of the longest prefix of s made of characters of cs
RECURSIVE SpanLen(_, _)
SpanLen(s, cs) ==
    IF s = "" \/ Head(s) \notin cs THEN 0 ELSE 1 + SpanLen(Tail(s), cs)

\* the match of (\d+\.?\d*) at the start of s, which begins with n >= 1 digits
NumberRun(s, n) ==
    IF Slice(s, n + 1, n + 1) = "."
    THEN Slice(s, 1, n + 1 + SpanLen(Slice(s, n + 2, Len(s)), DigitChars))
    ELSE Slice(s, 1, n)

\* re.search(r'(\d+\.?\d*)', s): the leftmost match, each part greedy;
\* "" when there is no match
RECURSIVE SearchNumber(_)
SearchNumber(s) ==
    IF s = "" THEN ""
    ELSE IF Head(s) \in DigitChars THEN NumberRun(s, SpanLen(s, DigitChars))
    ELSE SearchNumber(Tail(s))

\* float(text) for a text that begins with n digits
FloatOf(text, n) ==
    IF n = 0 THEN PyRaise
    ELSE IF n = Len(text) THEN PyFloat(Dec(DigitsValue(text)))
    ELSE IF Slice(text, n + 1, n + 1) # "."
            \/ SpanLen(Slice(text, n + 2, Len(text)), DigitChars) # Len(text) - n - 1
    THEN PyRaise
    ELSE PyFloat(Normalise([m |-> DigitsValue(Slice(text, 1, n) \o Slice(text, n + 2, Len(text))),
                            e |-> Len(text) - n - 1]))

\* float(text) for a text of the shape digits[.[digits]]; PyRaise (a
\* ValueError) for any other text
ParseFloat(text) == FloatOf(text, SpanLen(text, DigitChars))

SignedValueDropped(is_negative, value) ==
    IF value.t = "raise" THEN PyNone ELSE value

\* return -value if is_negative else value; an exception gives None
SignedValue(is_negative, value) ==
    IF value.t = "raise" THEN PyNone
    ELSE IF is_negative THEN PyFloat(DecNeg(value.v)) ELSE value

MatchedValueOrZero(is_negative, match) ==
    IF match # "" THEN SignedValue(is_negative, ParseFloat(match)) ELSE PyFloat(Zero)

\* if match: value = float(match.group(1)) ...; return None
MatchedValue(is_negative, match) ==
    IF match # "" THEN SignedValue(is_negative, ParseFloat(match)) ELSE PyNone

\* is_negative = cleaned.startswith('-'); if is_negative: cleaned = cleaned[1:]
CleanedValue(cleaned) ==
    MatchedValue(StartsWith(cleaned, "-"),
                 SearchNumber(IF StartsWith(cleaned, "-") THEN Tail(cleaned) ELSE cleaned))

extract_numeric_value(x) ==
    IF ~Truthy(x) \/ x.t # "str" THEN PyNone
    ELSE CleanedValue(Strip(RemoveChars(x.s, {"$", ",", " "})))

-----------------------------------------------------------------------------
(* str() of the values held in extracted_fields *)

RECURSIVE NatStr(_)
NatStr(n) == IF n < 10 THEN DigitChar(n) ELSE NatStr(n \div 10) \o DigitChar(n % 10)

\* the digits of n, left-padded with zeros to width w
RECURSIVE PadStr(_, _)
PadStr(n, w) == IF w = 0 THEN "" ELSE PadStr(n \div 10, w - 1) \o DigitChar(n % 10)

\* str(float): shortest repr, with ".0" for a whole number
FloatStr(d) ==
    LET a == DecAbs(d).m
        sign == IF d.m < 0 THEN "-" ELSE ""
    IN  IF d.e = 0 THEN sign \o NatStr(a) \o ".0"
        ELSE sign \o NatStr(a \div Pow10(d.e)) \o "." \o PadStr(a % Pow10(d.e), d.e)

\* str(value)
PyToStr(x) ==
    CASE x.t = "str" -> x.s
      [] x.t = "float" -> FloatStr(x.v)
      [] OTHER -> "None"

\* value_str = str(value).strip() if value else ""
ValueStr(x) == IF Truthy(x) THEN Strip(PyToStr(x)) ELSE ""

-----------------------------------------------------------------------------
(* aggregate_property_totals_from_all_documents *)

income_keywords ==
    <<"rental income", "total income", "income", "revenue", "rental revenue",
      "monthly income", "rental", "rent", "gross income">>

individual_expense_keywords ==
    <<"maintenance", "insurance", "property tax", "utilities", "management",
      "roof repair", "plumbing repair", "hvac service", "repair", "service",
      "tax", "property management", "cleaning", "lawn", "snow", "trash",
      "water", "electric", "gas", "sewer", "advertising", "legal", "accounting">>

\* "total" in key_lower and ("expenses" in key_lower or "expense" in key_lower)
IsTotalExpensesKey(key_lower) ==
    Contains(key_lower, "total")
        /\ (Contains(key_lower, "expenses") \/ Contains(key_lower, "expense"))

\* any(kw in key_lower for kw in income_keywords)
IsIncomeKey(key_lower) ==
    \E i \in 1..Len(income_keywords) : Contains(key_lower, income_keywords[i])

\* the loop choosing matched_keyword: the first of the longest keywords
\* contained in key_lower, "" (None) when none is
RECURSIVE MatchKeyword(_, _, _)
MatchKeyword(key_lower, i, matched_keyword) ==
    IF i > Len(individual_expense_keywords) THEN matched_keyword
    ELSE LET ind_kw == individual_expense_keywords[i]
         IN  MatchKeyword(key_lower, i + 1,
                 IF Contains(key_lower, ind_kw) /\ Len(ind_kw) > Len(matched_keyword)
                 THEN ind_kw ELSE matched_keyword)

IsDuplicateAnyKeyword(processed_expense_details, abs_value, matched_keyword) ==
    \E i \in 1..Len(processed_expense_details) :
        abs_value = processed_expense_details[i].value

IsDuplicateNever(processed_expense_details, abs_value, matched_keyword) == FALSE

\* the is_duplicate loop over processed_expense_details
IsDuplicate(processed_expense_details, abs_value, matched_keyword) ==
    \E i \in 1..Len(processed_expense_details) :
        /\ abs_value = processed_expense_details[i].value
        /\ \/ Contains(processed_expense_details[i].keyword, matched_keyword)
           \/ Contains(matched_keyword, processed_expense_details[i].keyword)

\* the per-document locals before the field loop
InitDocState ==
    [doc_income |-> Zero, doc_expenses |-> Zero, processed_expense_details |-> <<>>]

\* the assignments to doc_income for a field whose key holds an income keyword
SetIncome(st, key_lower, parsed) ==
    IF parsed.t = "float" /\ parsed.v.m > 0
    THEN IF Contains(key_lower, "total") \/ Contains(key_lower, "rental")
         THEN IF st.doc_income = Zero \/ Contains(key_lower, "total")
              THEN [st EXCEPT !.doc_income = parsed.v]
              ELSE st
         ELSE IF st.doc_income = Zero
              THEN [st EXCEPT !.doc_income = parsed.v]
              ELSE st
    ELSE st

\* the income branch of the field loop body
ScanIncome(st, key_lower, value_str) ==
    IF IsIncomeKey(key_lower)
    THEN SetIncome(st, key_lower, extract_numeric_value(PyStr(value_str)))
    ELSE st

\* abs_value = abs(parsed); add it unless it is a duplicate
AddExpense(st, matched_keyword, abs_value) ==
    IF IsDuplicate(st.processed_expense_details, abs_value, matched_keyword)
    THEN st
    ELSE [st EXCEPT
            !.processed_expense_details =
                Append(@, [value |-> abs_value, keyword |-> matched_keyword]),
            !.doc_expenses = DecAdd(@, abs_value)]

\* if parsed is not None
AddParsed(st, matched_keyword, parsed) ==
    IF parsed.t = "float" THEN AddExpense(st, matched_keyword, DecAbs(parsed.v)) ELSE st

\* if matched_keyword: parsed = extract_numeric_value(value_str)
AddMatched(st, matched_keyword, value_str) ==
    IF matched_keyword # ""
    THEN AddParsed(st, matched_keyword, extract_numeric_value(PyStr(value_str)))
    ELSE st

\* the individual-expense branch of the field loop body
ScanExpense(st, key_lower, value_str) ==
    AddMatched(st, MatchKeyword(key_lower, 1, ""), value_str)

\* the loop body once key_lower and value_str are known
ScanKey(st, key_lower, value_str) ==
    IF IsTotalExpensesKey(key_lower) THEN st
    ELSE ScanExpense(ScanIncome(st, key_lower, value_str), key_lower, value_str)

\* one iteration of `for key, value in extracted_fields.items()`
ScanField(st, key, value) == ScanKey(st, Strip(Lower(key)), ValueStr(value))

RECURSIVE ScanFields(_, _, _)
ScanFields(extracted_fields, i, st) ==
    IF i > Len(extracted_fields) THEN st
    ELSE ScanFields(extracted_fields, i + 1,
                    ScanField(st, extracted_fields[i].k, extracted_fields[i].v))

\* the first field at or after i whose key is a "total expense(s)" key and
\* whose value parses, 0 when there is none
RECURSIVE FirstTotalExpenses(_, _)
FirstTotalExpenses(extracted_fields, i) ==
    IF i > Len(extracted_fields) THEN 0
    ELSE IF IsTotalExpensesKey(Strip(Lower(extracted_fields[i].k)))
            /\ extract_numeric_value(PyStr(ValueStr(extracted_fields[i].v))).t = "float"
    THEN i
    ELSE FirstTotalExpenses(extracted_fields, i + 1)

TotalExpensesFallbackSigned(extracted_fields, i) ==
    IF i = 0 THEN Zero
    ELSE extract_numeric_value(PyStr(ValueStr(extracted_fields[i].v))).v

\* doc_expenses = abs(parsed) for the field i found by the second loop
TotalExpensesFallback(extracted_fields, i) ==
    IF i = 0 THEN Zero
    ELSE DecAbs(extract_numeric_value(PyStr(ValueStr(extracted_fields[i].v))).v)

\* the second loop runs when doc_expenses == 0
WithFallback(extracted_fields, st) ==
    [doc_income |-> st.doc_income,
     doc_expenses |-> IF st.doc_expenses = Zero
                      THEN TotalExpensesFallback(extracted_fields,
                               FirstTotalExpenses(extracted_fields, 1))
                      ELSE st.doc_expenses]

\* the body of `for doc in documents` for a document with fields:
\* (doc_income, doc_expenses)
DocTotals(extracted_fields) ==
    WithFallback(extracted_fields, ScanFields(extracted_fields, 1, InitDocState))

-----------------------------------------------------------------------------
(* parse_fields_from_raw_text *)

\* a dict is the sequence of its items in insertion order; fields[k] = v
DictSet(fields, k, v) ==
    IF \E i \in 1..Len(fields) : fields[i].k = k
    THEN [i \in 1..Len(fields) |->
             IF fields[i].k = k THEN [k |-> k, v |-> v] ELSE fields[i]]
    ELSE Append(fields, [k |-> k, v |-> v])

DictKeys(fields) == {fields[i].k : i \in 1..Len(fields)}

DictGet(fields, k) ==
    IF k \in DictKeys(fields)
    THEN fields[CHOOSE i \in 1..Len(fields) : fields[i].k = k].v
    ELSE PyNone

\* field_patterns, in insertion order.  Each regex is
\*   word (\s+ word)* opt? [:\s]* -? \$? ([\d,]+\.?\d*)
\* with "-?" present only where minus is TRUE
field_patterns ==
    <<[words |-> <<"rental", "income">>, opt |-> "", minus |-> FALSE, field_name |-> "Rental Income"],
      [words |-> <<"total", "income">>, opt |-> "", minus |-> FALSE, field_name |-> "Total Income"],
      [words |-> <<"income">>, opt |-> "", minus |-> FALSE, field_name |-> "Income"],
      [words |-> <<"total", "expense">>, opt |-> "s", minus |-> TRUE, field_name |-> "Total Expenses"],
      [words |-> <<"expense">>, opt |-> "s", minus |-> TRUE, field_name |-> "Expenses"],
      [words |-> <<"net", "cash", "flow">>, opt |-> "", minus |-> FALSE, field_name |-> "Net Cash Flow"],
      [words |-> <<"cash", "flow">>, opt |-> "", minus |-> FALSE, field_name |-> "Cash Flow"],
      [words |-> <<"maintenance">>, opt |-> "", minus |-> TRUE, field_name |-> "Maintenance"],
      [words |-> <<"insurance">>, opt |-> "", minus |-> TRUE, field_name |-> "Insurance"],
      [words |-> <<"property", "tax">>, opt |-> "", minus |-> TRUE, field_name |-> "Property Tax"],
      [words |-> <<"utilitie">>, opt |-> "s", minus |-> TRUE, field_name |-> "Utilities"],
      [words |-> <<"property", "management">>, opt |-> "", minus |-> TRUE, field_name |-> "Property Management"],
      [words |-> <<"management">>, opt |-> "", minus |-> TRUE, field_name |-> "Management"],
      [words |-> <<"roof", "repair">>, opt |-> "", minus |-> TRUE, field_name |-> "Roof Repair"],
      [words |-> <<"plumbing", "repair">>, opt |-> "", minus |-> TRUE, field_name |-> "Plumbing Repair"],
      [words |-> <<"hvac", "service">>, opt |-> "", minus |-> TRUE, field_name |-> "HVAC Service"],
      [words |-> <<"repair">>, opt |-> "", minus |-> TRUE, field_name |-> "Repair"],
      [words |-> <<"service">>, opt |-> "", minus |-> TRUE, field_name |-> "Service"]>>

DigitOrComma == DigitChars \cup {","}

\* the text from position pos on
From(text, pos) == Slice(text, pos, Len(text))

\* position after the words of a pattern matched at pos (words separated by
\* \s+), 0 when they do not match there
RECURSIVE MatchWords(_, _, _, _)
MatchWords(text, pos, words, w) ==
    LET p == IF w = 1 THEN pos ELSE pos + SpanLen(From(text, pos), SpaceChars)
    IN  IF w > 1 /\ p = pos THEN 0
        ELSE IF ~StartsWith(From(text, p), words[w]) THEN 0
        ELSE IF w = Len(words) THEN p + Len(words[w])
        ELSE MatchWords(text, p + Len(words[w]), words, w + 1)

NoMatch == [end |-> 0, group |-> ""]

\* ([\d,]+\.?\d*) at p5: [end |-> position after the match, group |-> group(1)]
MatchNumber(text, p5) ==
    LET n == SpanLen(From(text, p5), DigitOrComma)
        p6 == p5 + n
    IN  IF n = 0 THEN NoMatch
        ELSE IF StartsWith(From(text, p6), ".")
        THEN [end |-> p6 + 1 + SpanLen(From(text, p6 + 1), DigitChars),
              group |-> Slice(text, p5, p6 + SpanLen(From(text, p6 + 1), DigitChars))]
        ELSE [end |-> p6, group |-> Slice(text, p5, p6 - 1)]

\* \$? at p4
MatchDollar(text, p4) ==
    MatchNumber(text, IF StartsWith(From(text, p4), "$") THEN p4 + 1 ELSE p4)

\* -? at p3, for the patterns that have it
MatchMinus(pattern, text, p3) ==
    MatchDollar(text, IF pattern.minus /\ StartsWith(From(text, p3), "-") THEN p3 + 1 ELSE p3)

\* [:\s]* at p2
MatchSeparator(pattern, text, p2) ==
    MatchMinus(pattern, text, p2 + SpanLen(From(text, p2), SpaceChars \cup {":"}))

\* the optional last letter at p1, the position after the words (0 when the
\* words did not match)
MatchOpt(pattern, text, p1) ==
    IF p1 = 0 THEN NoMatch
    ELSE MatchSeparator(pattern, text,
             IF pattern.opt # "" /\ StartsWith(From(text, p1), pattern.opt)
             THEN p1 + 1 ELSE p1)

\* pattern.match at pos: [end |-> position after the match, group |-> group(1)],
\* end = 0 when the pattern does not match at pos
MatchAt(pattern, text, pos) ==
    MatchOpt(pattern, text, MatchWords(text, pos, pattern.words, 1))

\* n with thousands separators
RECURSIVE CommaStr(_)
CommaStr(n) ==
    IF n < 1000 THEN NatStr(n) ELSE CommaStr(n \div 1000) \o "," \o PadStr(n % 1000, 3)

\* d in hundredths, rounded half to even (exact when d has at most two
\* fraction digits)
Cents(d) ==
    IF d.e <= 2 THEN d.m * Pow10(2 - d.e)
    ELSE LET unit == Pow10(d.e - 2)
             q == d.m \div unit
             r == d.m % unit
         IN  IF 2 * r > unit \/ (2 * r = unit /\ q % 2 = 1) THEN q + 1 ELSE q

\* f"${numeric_value:,.2f}" for numeric_value >= 0
FormatCurrency(d) ==
    "$" \o CommaStr(Cents(d) \div 100) \o "." \o PadStr(Cents(d) % 100, 2)

\* the least element of a set of positions, 0 for the empty set
FirstOf(starts) ==
    IF starts = {} THEN 0 ELSE CHOOSE p \in starts : \A q \in starts : p <= q

\* start of the leftmost match of pattern at or after pos, 0 when none
SearchFrom(pattern, text, pos) ==
    FirstOf({p \in pos..Len(text) :
                /\ Slice(text, p, p + Len(pattern.words[1]) - 1) = pattern.words[1]
                /\ MatchAt(pattern, text, p).end # 0})

\* for match in re.finditer(pattern, text_lower): fields[field_name] = ...
RECURSIVE ApplyPattern(_, _, _, _)

\* if numeric_value is not None: fields[field_name] = f"${numeric_value:,.2f}"
StoreMatch(pattern, text_lower, end, numeric_value, fields) ==
    ApplyPattern(pattern, text_lower, end,
        IF numeric_value.t = "float"
        THEN DictSet(fields, pattern.field_name,
                 PyStr(FormatCurrency(DecAbs(numeric_value.v))))
        ELSE fields)

\* numeric_value = extract_numeric_value(match.group(1))
HandleMatch(pattern, text_lower, match, fields) ==
    StoreMatch(pattern, text_lower, match.end,
               extract_numeric_value(PyStr(match.group)), fields)

\* the match starting at start, if there is one (start # 0)
MatchFrom(pattern, text_lower, start, fields) ==
    IF start = 0 THEN fields
    ELSE HandleMatch(pattern, text_lower, MatchAt(pattern, text_lower, start), fields)

ApplyPattern(pattern, text_lower, pos, fields) ==
    MatchFrom(pattern, text_lower, SearchFrom(pattern, text_lower, pos), fields)

\* for pattern, field_name in field_patterns.items()
RECURSIVE ApplyPatterns(_, _, _)
ApplyPatterns(text_lower, i, fields) ==
    IF i > Len(field_patterns) THEN fields
    ELSE ApplyPatterns(text_lower, i + 1,
                       ApplyPattern(field_patterns[i], text_lower, 1, fields))

\* s split at its first sep, which is at position n + 1 (none when n = Len(s))
RECURSIVE Split(_, _)
SplitAt(s, sep, n) ==
    IF n = Len(s) THEN <<s>>
    ELSE <<Slice(s, 1, n)>> \o Split(Slice(s, n + 2, Len(s)), sep)

\* str.split(sep) for a one-character sep
Split(s, sep) == SplitAt(s, sep, SpanLen(s, {Slice(s, i, i) : i \in 1..Len(s)} \ {sep}))

\* re.search(r'\$?[\d,]+\.[\d]{2}', value)
LooksLikeCurrency(value) ==
    \E i \in 1..Len(value) :
        /\ Slice(value, i, i) \in DigitOrComma
        /\ StartsWith(From(value, i + 1), ".")
        /\ SpanLen(Slice(value, i + 2, i + 3), DigitChars) = 2

\* [\d,]+\.[\d]{2} at position p of next_line
CurrencyAt(next_line, p, n) ==
    /\ n > 0
    /\ StartsWith(From(next_line, p + n), ".")
    /\ SpanLen(Slice(next_line, p + n + 1, p + n + 2), DigitChars) = 2

\* \$?[\d,]+\.[\d]{2} at position p of next_line
DollarCurrencyAt(next_line, p) ==
    CurrencyAt(next_line, p, SpanLen(From(next_line, p), DigitOrComma))

\* -?\$? then the amount
SignedCurrencyAt(next_line, p) ==
    DollarCurrencyAt(next_line, IF StartsWith(From(next_line, p), "$") THEN p + 1 ELSE p)

\* re.search(r'^-?\$?[\d,]+\.[\d]{2}', next_line)
StartsLikeCurrency(next_line) ==
    SignedCurrencyAt(next_line, IF StartsWith(next_line, "-") THEN 2 ELSE 1)

\* label, value = line.split(':', 1), both stripped, stored when the value
\* looks like currency
StoreLabelled(fields, label, value) ==
    IF LooksLikeCurrency(value) THEN DictSet(fields, label, PyStr(value)) ELSE fields

\* the line with a colon, whose first colon is at position n + 1
SplitLabelled(fields, line, n) ==
    StoreLabelled(fields, Strip(Slice(line, 1, n)), Strip(Slice(line, n + 2, Len(line))))

\* the fields after line i, the stripped line being line and the stripped
\* next line next_line ("" when there is none)
ParseLine(fields, line, next_line) ==
    IF line = "" THEN fields
    ELSE IF Contains(line, ":")
    THEN SplitLabelled(fields, line,
             SpanLen(line, {Slice(line, j, j) : j \in 1..Len(line)} \ {":"}))
    ELSE IF StartsLikeCurrency(next_line)
    THEN DictSet(fields, line, PyStr(next_line))
    ELSE fields

\* for i, line in enumerate(lines)
RECURSIVE ParseLines(_, _, _)
ParseLines(lines, i, fields) ==
    IF i > Len(lines) THEN fields
    ELSE ParseLines(lines, i + 1,
             ParseLine(fields, Strip(lines[i]),
                       IF i + 1 <= Len(lines) THEN Strip(lines[i + 1]) ELSE ""))

parse_fields_from_raw_text(raw_text) ==
    IF raw_text = "" THEN <<>>
    ELSE ParseLines(Split(raw_text, "\n"), 1, ApplyPatterns(Lower(raw_text), 1, <<>>))

-----------------------------------------------------------------------------
(* extract_statement_date *)

LetterChars == DOMAIN UpperToLower \cup {UpperToLower[c] : c \in DOMAIN UpperToLower}

DateSeparators == {"/", "-"}

\* the test on a field's key: 'statement' in key_lower and 'date' in
\* key_lower, or key_lower == 'date' or 'statement date' in key_lower
IsDateKey(key_lower) ==
    \/ Contains(key_lower, "statement") /\ Contains(key_lower, "date")
    \/ key_lower = "date"
    \/ Contains(key_lower, "statement date")

\* the loop over extracted_fields: str(value) of the first field with a key,
\* a truthy value and a date key; None when there is none
RECURSIVE DateField(_, _)
DateField(extracted_fields, i) ==
    IF i > Len(extracted_fields) THEN PyNone
    ELSE IF /\ extracted_fields[i].k # ""
            /\ Truthy(extracted_fields[i].v)
            /\ IsDateKey(Lower(extracted_fields[i].k))
    THEN PyStr(PyToStr(extracted_fields[i].v))
    ELSE DateField(extracted_fields, i + 1)

\* a greedy run of min to max characters of cs at p: the position after it,
\* 0 when fewer than min are there or nothing matched before (p = 0)
Take(text, p, cs, min, max) ==
    IF p = 0 \/ SpanLen(From(text, p), cs) < min THEN 0
    ELSE IF SpanLen(From(text, p), cs) > max THEN p + max
    ELSE p + SpanLen(From(text, p), cs)

\* one character of cs at p
One(text, p, cs) == IF p = 0 \/ Slice(text, p, p) \notin cs THEN 0 ELSE p + 1

\* c? at p
Opt(text, p, c) == IF p # 0 /\ Slice(text, p, p) = c THEN p + 1 ELSE p

\* position after ([A-Za-z]+\s+\d{1,2},?\s+\d{4}) matched at p2, 0 for no match
NamedDateEnd(text, p2) ==
    Take(text,
         Take(text,
              Opt(text,
                  Take(text,
                       Take(text, Take(text, p2, LetterChars, 1, Len(text)),
                            SpaceChars, 1, Len(text)),
                       DigitChars, 1, 2),
                  ","),
              SpaceChars, 1, Len(text)),
         DigitChars, 4, 4)

\* position after (\d{1,2}[/-]\d{1,2}[/-]\d{2,4}) matched at p2, 0 for no match
NumericDateEnd(text, p2) ==
    Take(text,
         One(text,
             Take(text, One(text, Take(text, p2, DigitChars, 1, 2), DateSeparators),
                  DigitChars, 1, 2),
             DateSeparators),
         DigitChars, 2, 4)

\* patterns, in order: the words before [:\s]+ and the kind of group
date_patterns ==
    <<[words |-> <<"statement", "date">>, numeric |-> FALSE],
      [words |-> <<"statement", "date">>, numeric |-> TRUE],
      [words |-> <<"date">>, numeric |-> FALSE],
      [words |-> <<"date">>, numeric |-> TRUE]>>

\* the match whose group runs from p2 to end
DateGroup(text, p2, end) ==
    IF end = 0 THEN NoMatch ELSE [end |-> end, group |-> Slice(text, p2, end - 1)]

\* the group of the pattern at p2, the position after [:\s]+
DateGroupAt(pattern, text, p2) ==
    DateGroup(text, p2,
              IF pattern.numeric THEN NumericDateEnd(text, p2) ELSE NamedDateEnd(text, p2))

\* pattern.match at pos, re.IGNORECASE
DatePatternAt(pattern, text, pos) ==
    DateGroupAt(pattern, text,
                Take(text, MatchWords(Lower(text), pos, pattern.words, 1),
                     SpaceChars \cup {":"}, 1, Len(text)))

\* re.search(pattern, raw_text, re.IGNORECASE): the leftmost match
RECURSIVE SearchDate(_, _, _)
SearchDate(pattern, text, pos) ==
    IF pos > Len(text) THEN NoMatch
    ELSE IF DatePatternAt(pattern, text, pos).end # 0 THEN DatePatternAt(pattern, text, pos)
    ELSE SearchDate(pattern, text, pos + 1)

month_names ==
    <<"january", "february", "march", "april", "may", "june", "july", "august",
      "september", "october", "november", "december">>

\* %B: the number of the month with this full name, 0 for any other word
MonthNumber(name) ==
    IF \E m \in 1..12 : month_names[m] = Lower(name)
    THEN CHOOSE m \in 1..12 : month_names[m] = Lower(name)
    ELSE 0

\* %m and %d: one or two digits that make a number from 1 to max, 0 otherwise
FieldNumber(digits, max) ==
    IF DigitsValue(digits) >= 1 /\ DigitsValue(digits) <= max THEN DigitsValue(digits)
    ELSE 0

IsLeap(year) == (year % 4 = 0 /\ year % 100 # 0) \/ year % 400 = 0

DaysIn(month, year) ==
    IF month = 2 THEN (IF IsLeap(year) THEN 29 ELSE 28)
    ELSE IF month \in {4, 6, 9, 11} THEN 30
    ELSE 31

\* datetime(year, month, day) as strptime builds it, then
\* strftime('%Y-%m-%d'); "" for ValueError
IsoDate(year, month, day) ==
    IF year < 1 \/ month = 0 \/ day = 0 \/ day > DaysIn(month, year) THEN ""
    ELSE PadStr(year, 4) \o "-" \o PadStr(month, 2) \o "-" \o PadStr(day, 2)

\* '%B %d, %Y' and '%B %d %Y' on a group with n1 letters, s1 spaces and d
\* digits of day; the year is the last four characters
NamedIso(date_str, n1, s1, d) ==
    IsoDate(DigitsValue(Slice(date_str, Len(date_str) - 3, Len(date_str))),
            MonthNumber(Slice(date_str, 1, n1)),
            FieldNumber(Slice(date_str, n1 + s1 + 1, n1 + s1 + d), 31))

NamedSpaces(date_str, n1, s1) ==
    NamedIso(date_str, n1, s1, SpanLen(From(date_str, n1 + s1 + 1), DigitChars))

NamedLetters(date_str, n1) ==
    NamedSpaces(date_str, n1, SpanLen(From(date_str, n1 + 1), SpaceChars))

\* '%m/%d/%Y', '%m-%d-%Y', '%d/%m/%Y', in this order, on a group made of the
\* digits a, a separator, the digits b, a separator and the digits year
NumericIso(a, sep1, b, sep2, year) ==
    IF Len(year) # 4 \/ sep1 # sep2 THEN ""
    ELSE IF IsoDate(DigitsValue(year), FieldNumber(a, 12), FieldNumber(b, 31)) # ""
    THEN IsoDate(DigitsValue(year), FieldNumber(a, 12), FieldNumber(b, 31))
    ELSE IF sep1 = "/"
    THEN IsoDate(DigitsValue(year), FieldNumber(b, 12), FieldNumber(a, 31))
    ELSE ""

NumericSecondPart(date_str, d1, d2) ==
    NumericIso(Slice(date_str, 1, d1), Slice(date_str, d1 + 1, d1 + 1),
               Slice(date_str, d1 + 2, d1 + 1 + d2),
               Slice(date_str, d1 + d2 + 2, d1 + d2 + 2),
               Slice(date_str, d1 + d2 + 3, Len(date_str)))

NumericFirstPart(date_str, d1) ==
    NumericSecondPart(date_str, d1, SpanLen(From(date_str, d1 + 2), DigitChars))

\* the strptime loop over the five formats: the normalised date, "" when no
\* format parses date_str
ParsedDate(date_str) ==
    IF Slice(date_str, 1, 1) \in DigitChars
    THEN NumericFirstPart(date_str, SpanLen(date_str, DigitChars))
    ELSE NamedLetters(date_str, SpanLen(date_str, LetterChars))

\* the normalised date, or date_str as it is when parsing fails
NormalisedDate(date_str) ==
    IF ParsedDate(date_str) # "" THEN ParsedDate(date_str) ELSE date_str

\* the loop over patterns on the raw text
RECURSIVE SearchPatterns(_, _)
SearchPatterns(raw_text, i) ==
    IF i > Len(date_patterns) THEN PyNone
    ELSE IF SearchDate(date_patterns[i], raw_text, 1).end # 0
    THEN PyStr(NormalisedDate(Strip(SearchDate(date_patterns[i], raw_text, 1).group)))
    ELSE SearchPatterns(raw_text, i + 1)

StatementDateRawTextFirst(raw_text, extracted_fields) ==
    IF raw_text # "" /\ SearchPatterns(raw_text, 1) # PyNone
    THEN SearchPatterns(raw_text, 1)
    ELSE DateField(extracted_fields, 1)

extract_statement_date(raw_text, extracted_fields) ==
    IF DateField(extracted_fields, 1) # PyNone THEN DateField(extracted_fields, 1)
    ELSE IF raw_text # "" THEN SearchPatterns(raw_text, 1)
    ELSE PyNone

-----------------------------------------------------------------------------
(* The document store and the request handlers *)

MaxProperties == 1
MaxUploads == 2

Users == {"alice", "bob"}

PropertyIds == 1..MaxProperties

NoProperty ==
    [exists |-> FALSE, owner_id |-> "", rental_income |-> Zero, expenses |-> Zero,
     documents |-> <<>>]

valid_types ==
    {"property_document", "monthly_statement", "property_insurance", "property_tax",
     "mortgage_statement"}

Field(k, v) == [k |-> k, v |-> v]

extract_document_data(document_type) ==
    [status |-> "uploaded",
     raw_text |-> "",
     extracted_fields |->
        CASE document_type = "monthly_statement" ->
                <<Field("income", PyFloat(Dec(2500))), Field("expenses", PyFloat(Dec(750))),
                  Field("date", PyStr("2025-01-31"))>>
          [] document_type = "mortgage_statement" ->
                <<Field("principal", PyNone), Field("interest", PyNone),
                  Field("escrow", PyNone), Field("total_payment", PyNone)>>
          [] document_type = "property_tax" ->
                <<Field("tax_amount", PyNone), Field("assessment_value", PyNone),
                  Field("due_date", PyNone)>>
          [] document_type = "property_insurance" ->
                <<Field("premium_amount", PyNone), Field("coverage_amount", PyNone),
                  Field("policy_number", PyNone), Field("expiration_date", PyNone)>>
          [] OTHER -> <<>>]

\* what the section "Perform OCR using AWS Textract" of the /upload route
\* leaves in extracted_data, given what the OCR engine did: client is
\* get_textract_client() is not None, raises an exception inside the try,
\* key_values the KEY_VALUE_SET pairs and raw_text the joined LINE blocks
OcrSuccess(ocr, parsed_fields) ==
    [status |-> "ocr_success",
     extracted_fields |-> IF parsed_fields # <<>> THEN parsed_fields ELSE ocr.key_values,
     raw_text |-> ocr.raw_text]

OcrAlwaysSuccess(ocr) == OcrSuccess(ocr, <<>>)

OcrExtractedData(ocr) ==
    IF ~ocr.client
    THEN [status |-> "aws_credentials_not_configured", extracted_fields |-> <<>>, raw_text |-> ""]
    ELSE IF ocr.raises
    THEN [status |-> "ocr_failed", extracted_fields |-> <<>>, raw_text |-> ""]
    ELSE OcrSuccess(ocr, IF ocr.key_values = <<>> /\ ocr.raw_text # ""
                         THEN parse_fields_from_raw_text(ocr.raw_text) ELSE <<>>)

\* request bodies of POST /api/properties/
PropertyCreateInputs ==
    {[rental_income |-> Zero, expenses |-> Zero],
     [rental_income |-> Dec(1200), expenses |-> Dec(300)]}

\* the POST /api/properties/ requests: who sends which body
\* a body field the request does not carry
Unset == [t |-> "unset", s |-> "", v |-> Zero]

\* Optional[float] = Field(..., ge=0): None and an absent field pass, a number
\* passes when it is >= 0
ge0(value) == value.t # "float" \/ value.v.m >= 0

\* the body passes the validation of its pydantic model
ValidBody(body) == ge0(body.rental_income) /\ ge0(body.expenses)

\* what a validated body field leaves in the dict that is written: the
\* number, None for an explicit null, the default for an absent field
BodyValue(value, default) ==
    IF value.t = "float" THEN value.v
    ELSE IF value.t = "none" THEN PyNone
    ELSE default

CreateRequests ==
    {[user |-> "alice", property_data |-> [rental_income |-> Unset, expenses |-> Unset]],
     [user |-> "bob", property_data |-> [rental_income |-> PyFloat(Dec(1200)),
                                         expenses |-> PyFloat(Dec(300))]],
     [user |-> "bob", property_data |-> [rental_income |-> PyFloat(DecNeg(Dec(100))),
                                         expenses |-> Unset]]}

\* request bodies of PATCH /api/properties/{id}
UpdatePropertyInputs ==
    {[rental_income |-> PyFloat(Dec(900)), expenses |-> PyNone],
     [rental_income |-> Unset, expenses |-> PyFloat(DecNeg(Dec(1)))]}

\* document types sent to /api/properties/{id}/documents
DocumentTypeInputs == {"monthly_statement", "property_tax", "receipt"}

\* document types sent to the OCR /upload route
OcrDocumentTypeInputs == {"monthly_statement"}

\* what the OCR engine can do with an uploaded file
OcrResults ==
    {[client |-> FALSE, raises |-> FALSE, key_values |-> <<>>, raw_text |-> ""],
     [client |-> TRUE, raises |-> TRUE, key_values |-> <<>>, raw_text |-> ""],
     [client |-> TRUE, raises |-> FALSE, key_values |-> <<>>, raw_text |-> ""],
     [client |-> TRUE, raises |-> FALSE,
      key_values |-> <<Field("Rental Income", PyStr("$1,000.00")),
                       Field("Maintenance", PyStr("$200.00"))>>,
      raw_text |-> ""],
     [client |-> TRUE, raises |-> FALSE,
      key_values |-> <<Field("Insurance", PyStr("$300.00"))>>,
      raw_text |-> ""],
     [client |-> TRUE, raises |-> FALSE, key_values |-> <<>>,
      raw_text |-> "Rental Income\n$1,500.00\nMaintenance\n$200.00"]}

\* OcrExtractedData tabulated over the OCR results in use
ExtractedDataOf == [ocr \in OcrResults |-> OcrExtractedData(ocr)]

\* DocTotals tabulated over the field sets the two upload routes can store
DocTotalsTable ==
    [extracted_fields \in
        {ExtractedDataOf[ocr].extracted_fields : ocr \in OcrResults}
            \cup {extract_document_data(document_type).extracted_fields :
                     document_type \in valid_types} |->
        DocTotals(extracted_fields)]

DocTotalsOf(extracted_fields) ==
    IF extracted_fields \in DOMAIN DocTotalsTable
    THEN DocTotalsTable[extracted_fields] ELSE DocTotals(extracted_fields)

ZeroTotals == [total_income |-> Zero, total_expenses |-> Zero]

\* total_income += doc_income; total_expenses += doc_expenses
AddDocTotals(totals, d) ==
    [total_income |-> DecAdd(totals.total_income, d.doc_income),
     total_expenses |-> DecAdd(totals.total_expenses, d.doc_expenses)]

\* a stored document whose "extracted_data" is None instead of a dict: the
\* flat fields status, extracted_fields and raw_text of the other documents
\* stand for the entries of their extracted_data dict
MalformedDocument(id, property_id) ==
    [id |-> id, property_id |-> property_id, document_type |-> "monthly_statement",
     extracted_data |-> PyNone]

\* extracted_data.get("extracted_fields", {}) raises for such a document
DocFault(doc) == "extracted_data" \in DOMAIN doc

\* an exception leaving the loop over the documents, totals being the sums
\* at that moment
Fault(totals) == [raised |-> TRUE, partial |-> totals]

RECURSIVE AggregateLastDocumentWins(_, _, _)
AggregateLastDocumentWins(documents, i, totals) ==
    IF i > Len(documents) THEN totals
    ELSE IF DocFault(documents[i]) THEN Fault(totals)
    ELSE IF documents[i].extracted_fields = <<>>
    THEN AggregateLastDocumentWins(documents, i + 1, totals)
    ELSE AggregateLastDocumentWins(documents, i + 1,
             AddDocTotals(ZeroTotals, DocTotalsOf(documents[i].extracted_fields)))

\* `for doc in documents`: skip a document without fields, add the others
RECURSIVE AggregateDocuments(_, _, _)
AggregateDocuments(documents, i, totals) ==
    IF i > Len(documents) THEN totals
    ELSE IF DocFault(documents[i]) THEN Fault(totals)
    ELSE IF documents[i].extracted_fields = <<>>
    THEN AggregateDocuments(documents, i + 1, totals)
    ELSE AggregateDocuments(documents, i + 1,
             AddDocTotals(totals, DocTotalsOf(documents[i].extracted_fields)))

CaughtKeepsPartial(result) ==
    IF "raised" \in DOMAIN result THEN result.partial ELSE result

\* except Exception: return (0.0, 0.0)
Caught(result) ==
    IF "raised" \in DOMAIN result THEN ZeroTotals ELSE result

\* a property_id outside DOMAIN collection is one ObjectId() rejects, a
\* property_id whose slot does not exist one find_one() does not find
aggregate_property_totals_from_all_documents(collection, property_id) ==
    IF property_id \notin DOMAIN collection \/ ~collection[property_id].exists
    THEN ZeroTotals
    ELSE Caught(AggregateDocuments(collection[property_id].documents, 1, ZeroTotals))

\* collection.update_one({"_id": property_id}, {"$set": {"documents": documents}})
SetDocuments(collection, property_id, documents) ==
    IF property_id \in DOMAIN collection /\ collection[property_id].exists
    THEN [collection EXCEPT ![property_id].documents = documents]
    ELSE collection

\* collection.update_one({"_id": property_id},
\*     {"$set": {"rental_income": ..., "expenses": ...}})
SetTotals(collection, property_id, rental_income, expenses) ==
    IF property_id \in DOMAIN collection /\ collection[property_id].exists
    THEN [collection EXCEPT ![property_id].rental_income = rental_income,
                            ![property_id].expenses = expenses]
    ELSE collection

\* total if total > 0 else 0
Positive(total) == IF total.m > 0 THEN total ELSE Zero

\* $set rental_income and expenses to the totals, each clamped at 0
WriteTotals(collection, property_id, totals) ==
    SetTotals(collection, property_id,
              Positive(totals.total_income), Positive(totals.total_expenses))

\* the totals added to the stored ones
AddTotals(collection, property_id, totals) ==
    SetTotals(collection, property_id,
              DecAdd(collection[property_id].rental_income, Positive(totals.total_income)),
              DecAdd(collection[property_id].expenses, Positive(totals.total_expenses)))

RecalculateAddsToStored(collection, property_id) ==
    AddTotals(collection, property_id,
              aggregate_property_totals_from_all_documents(collection, property_id))

recalculate_property_totals_from_documents(collection, property_id) ==
    WriteTotals(collection, property_id,
                aggregate_property_totals_from_all_documents(collection, property_id))

\* the part of update_property_from_extracted_data that touches the store;
\* the per-document income_value / expense_value / net_cash_flow it computes
\* first are only printed
update_property_from_extracted_data(collection, property_id, extracted_data) ==
    IF extracted_data.extracted_fields = <<>> THEN collection
    ELSE WriteTotals(collection, property_id,
                     aggregate_property_totals_from_all_documents(collection, property_id))

\* float(fields[k]) for the values extract_document_data produces
update_property_from_document(collection, property_id, document_type, extracted_data) ==
    LET fields == extracted_data.extracted_fields
        income == DictGet(fields, "income")
        expenses == DictGet(fields, "expenses")
        prop == collection[property_id]
    IN  SetTotals(collection, property_id,
            IF document_type = "monthly_statement" /\ income.t # "none"
            THEN income.v ELSE prop.rental_income,
            IF document_type = "monthly_statement" /\ expenses.t # "none"
            THEN expenses.v ELSE prop.expenses)

Document(id, property_id, document_type, extracted_data) ==
    [id |-> id, property_id |-> property_id, document_type |-> document_type,
     status |-> extracted_data.status,
     extracted_fields |-> extracted_data.extracted_fields,
     raw_text |-> extracted_data.raw_text]

Response(op, status, property_id, document_id) ==
    [op |-> op, status |-> status, property_id |-> property_id, document_id |-> document_id]

\* numResult before extract_numeric_value has returned
Pending == [t |-> "pending", s |-> "", v |-> Zero]

NumIdle == numArg = PyNone /\ numResult = Pending

AggIdle == aggregated = ZeroTotals /\ runs = 0

\* no request in flight, no user registered
ReqIdle == requests = <<>> /\ users = <<>>

\* no file handed to the OCR engine
TextIdle ==
    /\ textract = [client |-> FALSE, raises |-> FALSE, key_values |-> <<>>, raw_text |-> ""]
    /\ extracted = Pending

Init ==
    /\ properties = [p \in PropertyIds |-> NoProperty]
    /\ nextId = [property |-> 1, document |-> 1]
    /\ response = Response("none", 0, 0, 0)
    /\ NumIdle
    /\ TextIdle
    /\ AggIdle
    /\ ReqIdle

create_property(user, property_data) ==
    /\ nextId.property <= MaxProperties
    /\ IF ValidBody(property_data)
       THEN /\ properties' = [properties EXCEPT ![nextId.property] =
                                 [exists |-> TRUE, owner_id |-> user,
                                  rental_income |->
                                      BodyValue(property_data.rental_income, Zero),
                                  expenses |-> BodyValue(property_data.expenses, Zero),
                                  documents |-> <<>>]]
            /\ nextId' = [nextId EXCEPT !.property = @ + 1]
            /\ response' = Response("create_property", 201, nextId.property, 0)
       ELSE /\ response' = Response("create_property", 422, 0, 0)
            /\ UNCHANGED <<properties, nextId>>
    /\ UNCHANGED <<numVars, aggVars, reqVars, textVars>>

update_property(user, property_id, update_data) ==
    LET prop == properties[property_id]
    IN  /\ IF ~ValidBody(update_data)
           THEN /\ properties' = properties
                /\ response' = Response("update_property", 422, 0, 0)
           ELSE IF prop.exists /\ prop.owner_id = user
           THEN /\ properties' = [properties EXCEPT
                      ![property_id].rental_income =
                          BodyValue(update_data.rental_income, @),
                      ![property_id].expenses = BodyValue(update_data.expenses, @)]
                /\ response' = Response("update_property", 200, property_id, 0)
           ELSE /\ properties' = properties
                /\ response' = Response("update_property", 404, 0, 0)
        /\ UNCHANGED <<nextId, numVars, aggVars, reqVars, textVars>>

\* a stored total as the list route returns it: 0 for None
ListedTotal(total) == IF total = PyNone THEN Zero ELSE total

\* the PropertyModel the list route builds from a stored property
Listed(collection, property_id) ==
    [id |-> property_id, owner_id |-> collection[property_id].owner_id,
     rental_income |-> ListedTotal(collection[property_id].rental_income),
     expenses |-> ListedTotal(collection[property_id].expenses)]

OwnedByAnyone(collection, user) ==
    {property_id \in DOMAIN collection : collection[property_id].exists}

\* find({"owner_id": user_id}): the ids of the user's properties
OwnedBy(collection, user) ==
    {property_id \in DOMAIN collection :
        collection[property_id].exists /\ collection[property_id].owner_id = user}

\* GET /api/properties/
get_properties(user) ==
    /\ response' = [op |-> "get_properties", status |-> 200, property_id |-> 0,
                    document_id |-> 0,
                    result |-> {Listed(properties, property_id) :
                                   property_id \in OwnedBy(properties, user)}]
    /\ UNCHANGED <<properties, nextId, numVars, aggVars, reqVars, textVars>>

\* GET /api/properties/{property_id}
get_property(user, property_id) ==
    /\ response' = IF property_id \in OwnedBy(properties, user)
                   THEN Response("get_property", 200, property_id, 0)
                   ELSE Response("get_property", 404, 0, 0)
    /\ UNCHANGED <<properties, nextId, numVars, aggVars, reqVars, textVars>>

\* DELETE /api/properties/{property_id}
delete_property(user, property_id) ==
    /\ IF property_id \in OwnedBy(properties, user)
       THEN /\ properties' = [properties EXCEPT ![property_id] = NoProperty]
            /\ response' = Response("delete_property", 204, property_id, 0)
       ELSE /\ properties' = properties
            /\ response' = Response("delete_property", 404, 0, 0)
    /\ UNCHANGED <<nextId, numVars, aggVars, reqVars, textVars>>

\* POST /api/properties/{property_id}/documents
upload_document(user, property_id, document_type) ==
    LET prop == properties[property_id]
        extracted_data == extract_document_data(document_type)
        document_data == Document(nextId.document, property_id, document_type, extracted_data)
        documents == Append(prop.documents, document_data)
    IN  /\ nextId.document <= MaxUploads
        /\ IF ~(prop.exists /\ prop.owner_id = user)
           THEN /\ response' = Response("upload_document", 404, 0, 0)
                /\ UNCHANGED <<properties, nextId>>
           ELSE IF document_type \notin valid_types
           THEN /\ response' = Response("upload_document", 400, 0, 0)
                /\ UNCHANGED <<properties, nextId>>
           ELSE /\ properties' = update_property_from_document(
                                     SetDocuments(properties, property_id, documents),
                                     property_id, document_type, extracted_data)
                /\ nextId' = [nextId EXCEPT !.document = @ + 1]
                /\ response' = Response("upload_document", 201, property_id, document_data.id)
        /\ UNCHANGED <<numVars, aggVars, reqVars, textVars>>

UpdateWhateverExtracted(collection, property_id, extracted_data) ==
    WriteTotals(collection, property_id,
                aggregate_property_totals_from_all_documents(collection, property_id))

\* the totals update of the OCR route, made only for status ocr_success with
\* fields
UpdateIfExtracted(collection, property_id, extracted_data) ==
    IF extracted_data.status = "ocr_success" /\ extracted_data.extracted_fields # <<>>
    THEN update_property_from_extracted_data(collection, property_id, extracted_data)
    ELSE collection

\* POST /upload of the OCR router
ocr_upload_document(user, property_id, document_type, ocr) ==
    \E extracted_data \in {ExtractedDataOf[ocr]} :
        LET document_data == Document(nextId.document, property_id, document_type,
                                      extracted_data)
            prop == properties[property_id]
            stored == SetDocuments(properties, property_id,
                                   Append(prop.documents, document_data))
        IN  /\ nextId.document <= MaxUploads
            /\ properties' =
                   IF prop.exists
                   THEN UpdateIfExtracted(stored, property_id, extracted_data)
                   ELSE properties
            /\ nextId' = [nextId EXCEPT !.document = @ + 1]
            /\ response' = Response("ocr_upload_document", 200, property_id, document_data.id)
            /\ UNCHANGED <<numVars, aggVars, reqVars, textVars>>

RemoveFirst(documents, index) == Tail(documents)

\* documents.pop(document_index)
RemoveAt(documents, index) ==
    [i \in 1..(Len(documents) - 1) |->
        IF i < index THEN documents[i] ELSE documents[i + 1]]

delete_document(user, property_id, document_id) ==
    LET prop == properties[property_id]
        found == {i \in 1..Len(prop.documents) : prop.documents[i].id = document_id}
    IN  /\ IF ~(prop.exists /\ prop.owner_id = user) \/ found = {}
           THEN /\ response' = Response("delete_document", 404, 0, 0)
                /\ UNCHANGED properties
           ELSE LET document_index == CHOOSE i \in found : \A j \in found : i <= j
                    documents == RemoveAt(prop.documents, document_index)
                IN  /\ properties' = recalculate_property_totals_from_documents(
                                         SetDocuments(properties, property_id, documents),
                                         property_id)
                    /\ response' = Response("delete_document", 200, property_id, document_id)
        /\ UNCHANGED <<nextId, numVars, aggVars, reqVars, textVars>>

Next ==
    \/ \E request \in CreateRequests :
           create_property(request.user, request.property_data)
    \/ \E user \in Users, property_id \in PropertyIds, update_data \in UpdatePropertyInputs :
           update_property(user, property_id, update_data)
    \/ \E user \in Users, property_id \in PropertyIds, document_type \in DocumentTypeInputs :
           upload_document(user, property_id, document_type)
    \/ \E user \in Users, property_id \in PropertyIds,
          document_type \in OcrDocumentTypeInputs, ocr \in OcrResults :
           ocr_upload_document(user, property_id, document_type, ocr)
    \/ \E user \in Users, property_id \in PropertyIds, document_id \in 1..MaxUploads :
           delete_document(user, property_id, document_id)

Spec == Init /\ [][Next]_vars

-----------------------------------------------------------------------------
(* The property router on its own: every route of /api/properties, each    *)
(* issued by every user.                                                   *)

PropertiesNext ==
    \/ \E request \in CreateRequests :
           create_property(request.user, request.property_data)
    \/ \E user \in Users : get_properties(user)
    \/ \E user \in Users, property_id \in PropertyIds : get_property(user, property_id)
    \/ \E user \in Users, property_id \in PropertyIds, update_data \in UpdatePropertyInputs :
           update_property(user, property_id, update_data)
    \/ \E user \in Users, property_id \in PropertyIds : delete_property(user, property_id)
    \/ \E user \in Users, property_id \in PropertyIds, document_type \in DocumentTypeInputs :
           upload_document(user, property_id, document_type)
    \/ \E user \in Users, property_id \in PropertyIds, document_id \in 1..MaxUploads :
           delete_document(user, property_id, document_id)

SpecProperties == Init /\ [][PropertiesNext]_vars

-----------------------------------------------------------------------------
(* The two upload routes on created properties, each with every document   *)
(* type a client can put in the form field.                                *)

UploadsNext ==
    \/ \E request \in CreateRequests :
           create_property(request.user, request.property_data)
    \/ \E user \in Users, property_id \in PropertyIds, document_type \in DocumentTypeInputs :
           upload_document(user, property_id, document_type)
    \/ \E user \in Users, property_id \in PropertyIds,
          document_type \in DocumentTypeInputs, ocr \in OcrResults :
           ocr_upload_document(user, property_id, document_type, ocr)

SpecUploads == Init /\ [][UploadsNext]_vars

-----------------------------------------------------------------------------
(* The document routes on created properties: both uploads and the         *)
(* deletion of a document, with every outcome of the OCR engine.           *)

DocumentsNext ==
    \/ \E request \in CreateRequests :
           create_property(request.user, request.property_data)
    \/ \E user \in Users, property_id \in PropertyIds, document_type \in DocumentTypeInputs :
           upload_document(user, property_id, document_type)
    \/ \E user \in Users, property_id \in PropertyIds,
          document_type \in OcrDocumentTypeInputs, ocr \in OcrResults :
           ocr_upload_document(user, property_id, document_type, ocr)
    \/ \E user \in Users, property_id \in PropertyIds, document_id \in 1..MaxUploads :
           delete_document(user, property_id, document_id)

SpecDocuments == Init /\ [][DocumentsNext]_vars

-----------------------------------------------------------------------------
(* The OCR upload route on created properties, with every outcome of the   *)
(* OCR engine.                                                             *)

OcrNext ==
    \/ \E request \in CreateRequests :
           create_property(request.user, request.property_data)
    \/ \E user \in Users, property_id \in PropertyIds,
          document_type \in OcrDocumentTypeInputs, ocr \in OcrResults :
           ocr_upload_document(user, property_id, document_type, ocr)

SpecOcr == Init /\ [][OcrNext]_vars

-----------------------------------------------------------------------------
(* The numeric value extractor on its own: every short string over the     *)
(* characters it treats differently, the spec's two currency strings, a    *)
(* missing value and non-string values.                                    *)

MaxLen == 4

NumAlphabet == {"$", ",", " ", "\t", "-", ".", "0", "1", "a"}

RECURSIVE Strings(_)
Strings(n) ==
    IF n = 0 THEN {""}
    ELSE Strings(n - 1) \cup {s \o c : s \in Strings(n - 1), c \in NumAlphabet}

NumInputs ==
    {PyStr(s) : s \in Strings(MaxLen)}
        \cup {PyStr("$1,234.56"), PyStr("-$1,234.56")}
        \cup {PyNone, PyFloat(Zero), PyFloat(Dec(5))}

NumInit ==
    /\ numArg \in NumInputs
    /\ numResult = Pending
    /\ properties = [p \in PropertyIds |-> NoProperty]
    /\ nextId = [property |-> 1, document |-> 1]
    /\ response = Response("none", 0, 0, 0)
    /\ AggIdle
    /\ ReqIdle
    /\ TextIdle

NumExtract ==
    /\ numResult = Pending
    /\ numResult' = extract_numeric_value(numArg)
    /\ UNCHANGED <<numArg, sysVars, aggVars, reqVars, textVars>>

NumNext == NumExtract

SpecNum == NumInit /\ [][NumNext]_vars

-----------------------------------------------------------------------------
(* The aggregator and the totals recompute on their own: one property      *)
(* whose documents carry every small field set over a vocabulary of        *)
(* labels and values, or a short list of sample documents, recomputed      *)
(* repeatedly.                                                             *)

MaxFields == 2
MaxAggDocs == 2
MaxRuns == 2

AggLabels ==
    {"Property Management", "Management", "Maintenance", "Total Expenses",
     "Rental Income"}

AggValues == {"$100.00", "-$100.00", "$500.00"}

\* the dicts of at most n fields over AggLabels and AggValues
RECURSIVE FieldLists(_)
FieldLists(n) ==
    IF n = 0 THEN {<<>>}
    ELSE FieldLists(n - 1)
            \cup {Append(f, Field(k, PyStr(v))) :
                     f \in {g \in FieldLists(n - 1) : Len(g) = n - 1},
                     k \in AggLabels, v \in AggValues}

WellFormedDict(f) == \A i, j \in 1..Len(f) : f[i].k = f[j].k => i = j

SampleFieldLists ==
    {<<>>,
     <<Field("Rental Income", PyStr("$1,000.00")), Field("Maintenance", PyStr("$200.00"))>>,
     <<Field("Insurance", PyStr("$300.00"))>>,
     <<Field("Maintenance", PyStr("$100.00")), Field("Insurance", PyStr("$100.00"))>>,
     <<Field("Total Expenses", PyStr("$500.00"))>>,
     <<Field("Total Expenses", PyStr("-$500.00"))>>}

RECURSIVE SampleLists(_)
SampleLists(n) ==
    IF n = 0 THEN {<<>>}
    ELSE SampleLists(n - 1)
            \cup {Append(l, f) : l \in {m \in SampleLists(n - 1) : Len(m) = n - 1},
                                 f \in SampleFieldLists}

\* the dicts over the vocabulary
AggFieldLists == {g \in FieldLists(MaxFields) : WellFormedDict(g)}

\* the lists of field sets of the documents of the property
AggInputs == {<<f>> : f \in AggFieldLists} \cup SampleLists(MaxAggDocs)

AggDocuments(fieldLists) ==
    [i \in 1..Len(fieldLists) |->
        Document(i, 1, "monthly_statement",
                 [status |-> "ocr_success", extracted_fields |-> fieldLists[i],
                  raw_text |-> ""])]

AggInit ==
    /\ \E fieldLists \in AggInputs, stored \in PropertyCreateInputs :
          properties = [p \in PropertyIds |->
                           IF p = 1
                           THEN [exists |-> TRUE, owner_id |-> "alice",
                                 rental_income |-> stored.rental_income,
                                 expenses |-> stored.expenses,
                                 documents |-> AggDocuments(fieldLists)]
                           ELSE NoProperty]
    /\ nextId = [property |-> 2, document |-> MaxUploads + 1]
    /\ response = Response("none", 0, 0, 0)
    /\ AggIdle
    /\ ReqIdle
    /\ NumIdle
    /\ TextIdle

\* one aggregation run and the totals write that follows it
Recalculate ==
    /\ runs < MaxRuns
    /\ aggregated' = aggregate_property_totals_from_all_documents(properties, 1)
    /\ properties' = recalculate_property_totals_from_documents(properties, 1)
    /\ runs' = runs + 1
    /\ UNCHANGED <<nextId, response, numVars, reqVars, textVars>>

AggNext == Recalculate

SpecAgg == AggInit /\ [][AggNext]_vars

-----------------------------------------------------------------------------
(* The aggregator on one document whose fields mix income labels, an       *)
(* expense label, a total-expenses label and a label that holds an income  *)
(* and an expense keyword, with values that are positive, zero and         *)
(* negative; and on a statement of three related repair items, in every    *)
(* order of its fields.                                                    *)

DocLabels ==
    {"Income", "Rental Income", "Total Income", "Maintenance", "Total Expenses",
     "Income Tax"}

DocValues == {"$900.00", "$1,000.00", "$0.00", "-$50.00"}

\* the dicts of at most n fields over DocLabels and DocValues
RECURSIVE DocFieldLists(_)
DocFieldLists(n) ==
    IF n = 0 THEN {<<>>}
    ELSE DocFieldLists(n - 1)
            \cup {Append(f, Field(k, PyStr(v))) :
                     f \in {g \in DocFieldLists(n - 1) : Len(g) = n - 1},
                     k \in DocLabels, v \in DocValues}

\* the orderings of a dict
Orderings(f) ==
    {g \in [1..Len(f) -> {f[i] : i \in 1..Len(f)}] :
        \A i \in 1..Len(f) : \E j \in 1..Len(f) : g[j] = f[i]}

\* a statement with three repair items of one amount
RepairFields ==
    <<Field("Repair", PyStr("$100.00")), Field("Roof Repair", PyStr("$100.00")),
      Field("Plumbing Repair", PyStr("$100.00"))>>

DocInputs ==
    {g \in DocFieldLists(MaxFields) : WellFormedDict(g)} \cup Orderings(RepairFields)

DocInit ==
    /\ \E extracted_fields \in DocInputs :
          properties = [p \in PropertyIds |->
                           IF p = 1
                           THEN [exists |-> TRUE, owner_id |-> "alice",
                                 rental_income |-> Zero, expenses |-> Zero,
                                 documents |-> AggDocuments(<<extracted_fields>>)]
                           ELSE NoProperty]
    /\ nextId = [property |-> 2, document |-> MaxUploads + 1]
    /\ response = Response("none", 0, 0, 0)
    /\ AggIdle
    /\ ReqIdle
    /\ NumIdle
    /\ TextIdle

SpecDoc == DocInit /\ [][AggNext]_vars

-----------------------------------------------------------------------------
(* The aggregator called for any property id on stored records that may be *)
(* malformed: the property exists or not, its documents are well-formed    *)
(* samples or records whose extracted_data is None.                        *)

\* what a stored document can be: a sample, a document without fields or a
\* malformed record
StoredKinds == {"A", "B", "empty", "malformed"}

RECURSIVE KindLists(_)
KindLists(n) ==
    IF n = 0 THEN {<<>>}
    ELSE KindLists(n - 1)
            \cup {Append(l, k) : l \in {m \in KindLists(n - 1) : Len(m) = n - 1},
                                 k \in StoredKinds}

StoredDocument(id, kind) ==
    CASE kind = "malformed" -> MalformedDocument(id, 1)
      [] kind = "A" ->
            Document(id, 1, "monthly_statement",
                     [status |-> "ocr_success", raw_text |-> "",
                      extracted_fields |->
                          <<Field("Rental Income", PyStr("$1,000.00")),
                            Field("Maintenance", PyStr("$200.00"))>>])
      [] kind = "B" ->
            Document(id, 1, "monthly_statement",
                     [status |-> "ocr_success", raw_text |-> "",
                      extracted_fields |-> <<Field("Insurance", PyStr("$300.00"))>>])
      [] OTHER ->
            Document(id, 1, "monthly_statement",
                     [status |-> "ocr_failed", raw_text |-> "", extracted_fields |-> <<>>])

StoredDocuments(kinds) == [i \in 1..Len(kinds) |-> StoredDocument(i, kinds[i])]

\* the ids the aggregator is called with: 0 is not an ObjectId, the others
\* are, and may name no stored property
AggregatePropertyIds == 0..MaxProperties

FaultInit ==
    /\ \E kinds \in KindLists(MaxAggDocs), exists \in BOOLEAN :
          properties = [p \in PropertyIds |->
                           IF p = 1 /\ exists
                           THEN [exists |-> TRUE, owner_id |-> "alice",
                                 rental_income |-> Dec(1200), expenses |-> Dec(300),
                                 documents |-> StoredDocuments(kinds)]
                           ELSE NoProperty]
    /\ nextId = [property |-> 2, document |-> MaxUploads + 1]
    /\ response = Response("none", 0, 0, 0)
    /\ AggIdle
    /\ ReqIdle
    /\ NumIdle
    /\ TextIdle

\* one call of the aggregator; response records the id it was called with
Aggregate(property_id) ==
    /\ runs < MaxRuns
    /\ aggregated' = aggregate_property_totals_from_all_documents(properties, property_id)
    /\ runs' = runs + 1
    /\ response' = Response("aggregate", 0, property_id, 0)
    /\ UNCHANGED <<properties, nextId, numVars, reqVars, textVars>>

FaultNext == \E property_id \in AggregatePropertyIds : Aggregate(property_id)

SpecFault == FaultInit /\ [][FaultNext]_vars

-----------------------------------------------------------------------------
(* Requests served side by side. Each handler is a sequence of database    *)
(* operations on the one property: find_one(), update_one() of the         *)
(* document list, the aggregator's find_one(), update_one() of the totals, *)
(* and the return. Nothing holds the property between two operations, so   *)
(* the operations of different requests interleave freely.                 *)

MaxRequests == 2

RequestIds == 1..MaxRequests

\* the document the property holds when the requests arrive
FirstDocument ==
    Document(1, 1, "monthly_statement",
             [status |-> "ocr_success", raw_text |-> "",
              extracted_fields |-> <<Field("Rental Income", PyStr("$1,000.00")),
                                     Field("Maintenance", PyStr("$200.00"))>>])

NoExtractedData == [status |-> "", raw_text |-> "", extracted_fields |-> <<>>]

\* the requests that can arrive: an upload through either route, with OCR
\* succeeding or failing, and the delete of the first document
RequestInputs ==
    {[op |-> "upload_document", document_type |-> "monthly_statement",
      extracted_data |-> extract_document_data("monthly_statement")],
     [op |-> "ocr_upload_document", document_type |-> "monthly_statement",
      extracted_data |->
          [status |-> "ocr_success", raw_text |-> "",
           extracted_fields |-> <<Field("Insurance", PyStr("$300.00"))>>]],
     [op |-> "ocr_upload_document", document_type |-> "monthly_statement",
      extracted_data |-> [status |-> "ocr_failed", raw_text |-> "", extracted_fields |-> <<>>]],
     [op |-> "delete_document", document_type |-> "", extracted_data |-> NoExtractedData]}

\* request r as it arrives: an upload gets a fresh document id (uuid4), a
\* delete names the first document
Request(input, r) ==
    [op |-> input.op, document_type |-> input.document_type,
     extracted_data |-> input.extracted_data,
     document_id |-> IF input.op = "delete_document" THEN 1 ELSE r + 1,
     pc |-> "received", documents |-> <<>>, totals |-> ZeroTotals,
     writes |-> 0, status |-> 0]

RequestsInit ==
    /\ properties = [p \in PropertyIds |->
                        IF p = 1
                        THEN [exists |-> TRUE, owner_id |-> "alice",
                              rental_income |-> Dec(1000), expenses |-> Dec(200),
                              documents |-> <<FirstDocument>>]
                        ELSE NoProperty]
    /\ nextId = [property |-> 2, document |-> MaxRequests + 2]
    /\ response = Response("none", 0, 0, 0)
    /\ \E inputs \in [RequestIds -> RequestInputs] :
          requests = [r \in RequestIds |-> Request(inputs[r], r)]
    /\ users = <<>>
    /\ NumIdle
    /\ TextIdle
    /\ AggIdle

\* for index, doc in enumerate(documents): if doc.get("_id") == document_id;
\* 0 when no document has the id
IndexOf(documents, document_id) ==
    IF \E i \in DOMAIN documents : documents[i].id = document_id
    THEN CHOOSE i \in DOMAIN documents :
            /\ documents[i].id = document_id
            /\ \A j \in 1..(i - 1) : documents[j].id # document_id
    ELSE 0

\* the handler after prop = find_one(...): it holds the document list it
\* read; a delete that does not find its document raises 404
Found(request, documents) ==
    IF request.op = "delete_document" /\ IndexOf(documents, request.document_id) = 0
    THEN [request EXCEPT !.pc = "raised", !.status = 404]
    ELSE [request EXCEPT !.pc = "found", !.documents = documents]

FindProperty(r) ==
    /\ requests[r].pc = "received"
    /\ requests' = [requests EXCEPT ![r] = Found(@, properties[1].documents)]
    /\ response' = IF requests'[r].status = 404
                   THEN Response(requests[r].op, 404, 0, 0) ELSE response
    /\ UNCHANGED <<properties, nextId, users, numVars, aggVars, textVars>>

WrittenDocumentsPushed(request, stored) ==
    IF request.op = "delete_document"
    THEN RemoveAt(stored, IndexOf(stored, request.document_id))
    ELSE Append(stored, Document(request.document_id, 1, request.document_type,
                                 request.extracted_data))

\* the list the handler hands to $set: the list it read, with its document
\* appended or popped; the list stored by now plays no part
WrittenDocuments(request, stored) ==
    IF request.op = "delete_document"
    THEN RemoveAt(request.documents, IndexOf(request.documents, request.document_id))
    ELSE Append(request.documents,
                Document(request.document_id, 1, request.document_type,
                         request.extracted_data))

\* where the handler goes after writing the list: the OCR route skips the
\* totals unless the status is ocr_success and there are fields
AfterDocuments(request) ==
    IF request.op = "ocr_upload_document"
       /\ ~(request.extracted_data.status = "ocr_success"
            /\ request.extracted_data.extracted_fields # <<>>)
    THEN "updated" ELSE "stored"

WriteDocuments(r) ==
    /\ requests[r].pc = "found"
    /\ properties' = SetDocuments(properties, 1,
                                  WrittenDocuments(requests[r], properties[1].documents))
    /\ requests' = [requests EXCEPT ![r].pc = AfterDocuments(requests[r]),
                                    ![r].writes = @ + 1]
    /\ UNCHANGED <<nextId, response, users, numVars, aggVars, textVars>>

\* the aggregator reads the property again and sums what is stored now
AggregateTotals(r) ==
    /\ requests[r].pc = "stored"
    /\ requests[r].op \in {"ocr_upload_document", "delete_document"}
    /\ requests' = [requests EXCEPT
                       ![r].pc = "aggregated",
                       ![r].totals =
                           aggregate_property_totals_from_all_documents(properties, 1)]
    /\ UNCHANGED <<properties, nextId, response, users, numVars, aggVars, textVars>>

\* update_one() of rental_income and expenses: the aggregated totals, or
\* for the property-router upload the fields of its own document
UpdateTotals(r) ==
    /\ \/ requests[r].pc = "aggregated"
       \/ requests[r].pc = "stored" /\ requests[r].op = "upload_document"
    /\ properties' =
           IF requests[r].op = "upload_document"
           THEN update_property_from_document(properties, 1, requests[r].document_type,
                                              requests[r].extracted_data)
           ELSE WriteTotals(properties, 1, requests[r].totals)
    /\ requests' = [requests EXCEPT ![r].pc = "updated", ![r].writes = @ + 1]
    /\ UNCHANGED <<nextId, response, users, numVars, aggVars, textVars>>

RespondsBeforeTotals(request) == request.pc \in {"stored", "updated"}

\* the return statement is the last statement of each handler
RespondsAt(request) == request.pc = "updated"

Respond(r) ==
    /\ RespondsAt(requests[r])
    /\ requests[r].status = 0
    /\ requests' = [requests EXCEPT
                       ![r].status = IF requests[r].op = "upload_document" THEN 201 ELSE 200]
    /\ response' = Response(requests[r].op, requests'[r].status, 1,
                            requests[r].document_id)
    /\ UNCHANGED <<properties, nextId, users, numVars, aggVars, textVars>>

RequestsNext ==
    \E r \in RequestIds :
        \/ FindProperty(r)
        \/ WriteDocuments(r)
        \/ AggregateTotals(r)
        \/ UpdateTotals(r)
        \/ Respond(r)

SpecRequests == RequestsInit /\ [][RequestsNext]_vars

-----------------------------------------------------------------------------
(* POST /auth/register served side by side: find_one() on the email, then  *)
(* insert_one(). The handler is a plain def, which the framework runs on   *)
(* worker threads, and the users collection has no unique index.           *)

Emails == {"ann@example.com", "ben@example.com"}

RegisterInit ==
    /\ properties = [p \in PropertyIds |-> NoProperty]
    /\ nextId = [property |-> 1, document |-> 1]
    /\ response = Response("none", 0, 0, 0)
    /\ \E emails \in [RequestIds -> Emails] :
          requests = [r \in RequestIds |->
                         [op |-> "register", email |-> emails[r],
                          pc |-> "received", status |-> 0]]
    /\ users \in {<<>>, <<"ann@example.com">>}
    /\ NumIdle
    /\ TextIdle
    /\ AggIdle

\* users_collection.find_one({"email": email}) finds a user
Registered(collection, email) == \E i \in DOMAIN collection : collection[i] = email

\* if users_collection.find_one({"email": user.email}): raise 400
RegisterFind(r) ==
    /\ requests[r].pc = "received"
    /\ IF Registered(users, requests[r].email)
       THEN /\ requests' = [requests EXCEPT ![r].pc = "raised", ![r].status = 400]
            /\ response' = Response("register", 400, 0, 0)
       ELSE /\ requests' = [requests EXCEPT ![r].pc = "absent"]
            /\ response' = response
    /\ UNCHANGED <<properties, nextId, users, numVars, aggVars, textVars>>

\* users_collection.insert_one(user_to_dict(new_user))
RegisterInsert(r) ==
    /\ requests[r].pc = "absent"
    /\ users' = Append(users, requests[r].email)
    /\ requests' = [requests EXCEPT ![r].pc = "inserted"]
    /\ UNCHANGED <<properties, nextId, response, numVars, aggVars, textVars>>

RegisterRespond(r) ==
    /\ requests[r].pc = "inserted"
    /\ requests' = [requests EXCEPT ![r].pc = "returned", ![r].status = 200]
    /\ response' = Response("register", 200, 0, 0)
    /\ UNCHANGED <<properties, nextId, users, numVars, aggVars, textVars>>

RegisterNext ==
    \E r \in RequestIds :
        \/ RegisterFind(r)
        \/ RegisterInsert(r)
        \/ RegisterRespond(r)

SpecRegister == RegisterInit /\ [][RegisterNext]_vars

-----------------------------------------------------------------------------
(* The OCR section of the /upload route on its own: from what the OCR      *)
(* engine returned to the extracted_data and the statement date.           *)

\* the key-value pairs the OCR engine can return
KeyValueInputs ==
    {<<>>,
     <<Field("Statement Date", PyStr("January 31, 2025"))>>,
     <<Field("Rental Income", PyStr("$1,000.00")), Field("Date", PyStr("01/31/2025"))>>,
     <<Field("Statement Date", PyStr("")), Field("Due Date", PyStr("02/15/2025"))>>,
     <<Field("Date of Statement", PyStr("Jan 2025"))>>,
     <<Field("Property Management", PyStr("$100.00"))>>,
     <<Field("DATE", PyNone), Field("Maintenance", PyStr("$200.00"))>>}

\* the text lines the OCR engine can return
RawTextInputs ==
    {"",
     "Statement Date: January 31, 2025",
     "Statement Date 01/31/2025",
     "Date: 31/01/2025",
     "Date: Jan 5 2025",
     "Update: March 3, 2024",
     "Date: 02/30/2025",
     "Property Management: $100.00",
     "Rental Income\n$1,500.00\nMaintenance\n$200.00"}

TextractInputs ==
    {[client |-> TRUE, raises |-> FALSE, key_values |-> key_values, raw_text |-> raw_text] :
        key_values \in KeyValueInputs, raw_text \in RawTextInputs}
        \cup {[client |-> client, raises |-> TRUE, key_values |-> <<>>, raw_text |-> ""] :
                 client \in BOOLEAN}

TextInit ==
    /\ properties = [p \in PropertyIds |-> NoProperty]
    /\ nextId = [property |-> 1, document |-> 1]
    /\ response = Response("none", 0, 0, 0)
    /\ textract \in TextractInputs
    /\ extracted = Pending
    /\ NumIdle
    /\ AggIdle
    /\ ReqIdle

\* statement_date = None, then extract_statement_date when there is raw text
\* or a field
WithStatementDate(extracted_data) ==
    [status |-> extracted_data.status,
     extracted_fields |-> extracted_data.extracted_fields,
     raw_text |-> extracted_data.raw_text,
     statement_date |->
         IF extracted_data.raw_text # "" \/ extracted_data.extracted_fields # <<>>
         THEN extract_statement_date(extracted_data.raw_text,
                                     extracted_data.extracted_fields)
         ELSE PyNone]

ExtractText ==
    /\ extracted = Pending
    /\ \E extracted_data \in {OcrExtractedData(textract)} :
          extracted' = WithStatementDate(extracted_data)
    /\ UNCHANGED <<textract, sysVars, numVars, aggVars, reqVars>>

TextNext == ExtractText

SpecText == TextInit /\ [][TextNext]_vars

-----------------------------------------------------------------------------
(* Properties *)

\* the stored totals of a property, as a pair
StoredTotals(collection, property_id) ==
    [total_income |-> collection[property_id].rental_income,
     total_expenses |-> collection[property_id].expenses]

\* what a totals recompute writes for the current document list
AggregatorOutput(collection, property_id) ==
    LET totals == aggregate_property_totals_from_all_documents(collection, property_id)
    IN  [total_income |-> Positive(totals.total_income),
         total_expenses |-> Positive(totals.total_expenses)]

Totals(income, expenses) == [total_income |-> income, total_expenses |-> expenses]

FieldsOf(documents) == [i \in 1..Len(documents) |-> documents[i].extracted_fields]

DocumentA ==
    <<Field("Rental Income", PyStr("$1,000.00")), Field("Maintenance", PyStr("$200.00"))>>

DocumentB == <<Field("Insurance", PyStr("$300.00"))>>

\* C1: after every successful document upload (either route) and every
\* successful document delete, the stored rental_income and expenses of the
\* property equal the Aggregator's output over its current document list.
C1_TotalsMatchAggregator ==
    (/\ response.op \in {"upload_document", "ocr_upload_document", "delete_document"}
     /\ response.status \in {200, 201}
     /\ properties[response.property_id].exists)
        => StoredTotals(properties, response.property_id)
               = AggregatorOutput(properties, response.property_id)

\* C2: a successful delete_document(property, d) removes d and nothing else
\* from the document list, and leaves the stored totals equal to the
\* Aggregator's output over the remaining documents: deleting B from <<A, B>>
\* leaves (1000, 200), deleting the only document leaves (0, 0).
C2_DeleteRemovesAndRecomputes ==
    [][(response'.op = "delete_document" /\ response'.status = 200) =>
          LET p == response'.property_id
              d == response'.document_id
              before == properties[p].documents
              after == properties'[p].documents
          IN  /\ \A i \in 1..Len(after) : after[i].id # d
              /\ after = SelectSeq(before, LAMBDA doc : doc.id # d)
              /\ Len(after) = Len(before) - 1
              /\ StoredTotals(properties', p) = AggregatorOutput(properties', p)
              /\ (FieldsOf(before) = <<DocumentA, DocumentB>> /\ before[2].id = d)
                    => StoredTotals(properties', p) = Totals(Dec(1000), Dec(200))
              /\ Len(before) = 1 => StoredTotals(properties', p) = ZeroTotals]_vars

C2_Witness ==
    /\ response.op = "delete_document"
    /\ response.status = 200
    /\ FieldsOf(properties[response.property_id].documents) = <<DocumentA>>
    /\ properties[response.property_id].documents[1].id # response.document_id
    /\ StoredTotals(properties, response.property_id) = Totals(Dec(1000), Dec(200))

\* the Aggregator's result for a property holding the one document doc
OwnTotals(doc) ==
    aggregate_property_totals_from_all_documents(
        [p \in {1} |-> [exists |-> TRUE, owner_id |-> "alice", rental_income |-> Zero,
                        expenses |-> Zero, documents |-> <<doc>>]], 1)

RECURSIVE SumOwnTotals(_)
SumOwnTotals(documents) ==
    IF documents = <<>> THEN ZeroTotals
    ELSE LET rest == SumOwnTotals(Tail(documents))
             own == OwnTotals(Head(documents))
         IN  Totals(DecAdd(own.total_income, rest.total_income),
                    DecAdd(own.total_expenses, rest.total_expenses))

\* C3: the Aggregator's result is the component-wise sum over the documents
\* of each document's own pair, a document without fields contributing
\* (0, 0); documents A = (1000, 200) and B = (0, 300) give (1000, 500).
C3_SumOfDocuments ==
    runs > 0 =>
        LET documents == properties[1].documents
        IN  /\ aggregated = SumOwnTotals(documents)
            /\ \A i \in 1..Len(documents) :
                   documents[i].extracted_fields = <<>> => OwnTotals(documents[i]) = ZeroTotals
            /\ FieldsOf(documents) = <<DocumentA, DocumentB>> =>
                   /\ OwnTotals(documents[1]) = Totals(Dec(1000), Dec(200))
                   /\ OwnTotals(documents[2]) = Totals(Zero, Dec(300))
                   /\ aggregated = Totals(Dec(1000), Dec(500))

C3_Witness ==
    /\ runs > 0
    /\ FieldsOf(properties[1].documents) = <<DocumentA, DocumentB>>
    /\ aggregated = Totals(Dec(1000), Dec(500))

\* C4: a second aggregation run on an unchanged document list returns the
\* same pair as the first, and re-running the totals recompute leaves the
\* stored rental_income and expenses unchanged.
C4_RecomputeIdempotent ==
    [][runs >= 1 =>
          /\ aggregated' = aggregated
          /\ StoredTotals(properties', 1) = StoredTotals(properties, 1)]_vars

C4_Witness ==
    /\ runs = 2
    /\ FieldsOf(properties[1].documents) = <<DocumentA, DocumentB>>
    /\ StoredTotals(properties, 1) = Totals(Dec(1000), Dec(500))

KeyLower(f) == Strip(Lower(f.k))

Parsed(f) == extract_numeric_value(PyStr(ValueStr(f.v)))

Keyword(f) == MatchKeyword(KeyLower(f), 1, "")

\* a field that matches an individual expense keyword and parses
IsExpenseEntry(f) ==
    ~IsTotalExpensesKey(KeyLower(f)) /\ Keyword(f) # "" /\ Parsed(f).t = "float"

Related(kw1, kw2) == Contains(kw1, kw2) \/ Contains(kw2, kw1)

\* the expense entries that are summed: an entry is left out exactly when an
\* earlier summed entry has the same absolute value and a related keyword
SummedEntries(fields) ==
    LET entries == {i \in 1..Len(fields) : IsExpenseEntry(fields[i])}
    IN  CHOOSE S \in SUBSET entries :
            \A i \in entries :
                i \in S <=>
                    ~\E j \in S :
                        /\ j < i
                        /\ DecAbs(Parsed(fields[j]).v) = DecAbs(Parsed(fields[i]).v)
                        /\ Related(Keyword(fields[i]), Keyword(fields[j]))

RECURSIVE SumEntries(_, _)
SumEntries(fields, S) ==
    IF S = {} THEN Zero
    ELSE LET i == CHOOSE j \in S : TRUE
         IN  DecAdd(DecAbs(Parsed(fields[i]).v), SumEntries(fields, S \ {i}))

HasTotalExpensesKey(fields) ==
    \E i \in 1..Len(fields) : IsTotalExpensesKey(KeyLower(fields[i]))

PropertyManagementFirst ==
    <<Field("Property Management", PyStr("$100.00")), Field("Management", PyStr("$100.00"))>>

ManagementFirst ==
    <<Field("Management", PyStr("$100.00")), Field("Property Management", PyStr("$100.00"))>>

\* C5: within one document an expense field is skipped when its absolute
\* value equals that of an already-summed expense field whose keyword is
\* substring-related to its own; {"Property Management": "$100.00",
\* "Management": "$100.00"} gives expenses 100.00 in either field order.
C5_RelatedDuplicatesSkipped ==
    (runs > 0 /\ Len(properties[1].documents) = 1) =>
        LET fields == properties[1].documents[1].extracted_fields
            sum == SumEntries(fields, SummedEntries(fields))
        IN  /\ (sum # Zero \/ ~HasTotalExpensesKey(fields))
                  => aggregated.total_expenses = sum
            /\ fields \in {PropertyManagementFirst, ManagementFirst}
                  => aggregated.total_expenses = Dec(100)

C5_Witness ==
    /\ runs > 0
    /\ FieldsOf(properties[1].documents) = <<ManagementFirst>>
    /\ aggregated.total_expenses = Dec(100)

\* C6: expense fields of one document whose keywords are not
\* substring-related are all added, also when their values are equal;
\* {"Maintenance": "$100.00", "Insurance": "$100.00"} gives expenses 200.00.
C6_UnrelatedBothCounted ==
    (runs > 0 /\ Len(properties[1].documents) = 1) =>
        LET fields == properties[1].documents[1].extracted_fields
            all == 1..Len(fields)
        IN  /\ (/\ \A i \in all : IsExpenseEntry(fields[i])
                /\ \A i, j \in all :
                       i # j => ~Related(Keyword(fields[i]), Keyword(fields[j])))
                  => aggregated.total_expenses = SumEntries(fields, all)
            /\ fields = <<Field("Maintenance", PyStr("$100.00")),
                          Field("Insurance", PyStr("$100.00"))>>
                  => aggregated.total_expenses = Dec(200)

C6_Witness ==
    /\ runs > 0
    /\ FieldsOf(properties[1].documents)
           = <<(<<Field("Maintenance", PyStr("$100.00")),
                  Field("Insurance", PyStr("$100.00"))>>)>>
    /\ aggregated.total_expenses = Dec(200)

\* C7: a document with a "Total Expenses" entry and no individual expense
\* entry contributes the absolute parsed value of that entry as its whole
\* expense amount; "$500.00" and "-$500.00" both give 500.00.
C7_TotalExpensesFallback ==
    (runs > 0 /\ Len(properties[1].documents) = 1) =>
        LET fields == properties[1].documents[1].extracted_fields
        IN  \A j \in 1..Len(fields) :
                (/\ IsTotalExpensesKey(KeyLower(fields[j]))
                 /\ Parsed(fields[j]).t = "float"
                 /\ \A i \in 1..Len(fields) :
                        /\ IsTotalExpensesKey(KeyLower(fields[i])) => i = j
                        /\ i # j => Keyword(fields[i]) = "")
                    => /\ aggregated.total_expenses = DecAbs(Parsed(fields[j]).v)
                       /\ fields[j].v \in {PyStr("$500.00"), PyStr("-$500.00")}
                             => aggregated.total_expenses = Dec(500)

C7_Witness ==
    /\ runs > 0
    /\ FieldsOf(properties[1].documents) = <<(<<Field("Total Expenses", PyStr("-$500.00"))>>)>>
    /\ aggregated.total_expenses = Dec(500)

NoDigit(s) == \A i \in 1..Len(s) : Slice(s, i, i) \notin DigitChars

\* C8: for every input without a digit (the empty string, a missing value
\* and a non-string value included) the extractor returns "no value", and
\* it raises for no input.
C8_NoDigitNoValue ==
    /\ numResult.t # "raise"
    /\ (numResult # Pending /\ (numArg.t # "str" \/ NoDigit(numArg.s)))
          => numResult = PyNone

C8_Witness == numArg = PyStr("-$a.") /\ numResult = PyNone

\* the value of the digit strings int "." frac
DecimalOf(int, frac) == Normalise([m |-> DigitsValue(int \o frac), e |-> Len(frac)])

\* last position of the run of digits that starts at position i of s
RunEnd(s, i) ==
    CHOOSE j \in (i - 1)..Len(s) :
        /\ \A k \in i..j : Slice(s, k, k) \in DigitChars
        /\ Slice(s, j + 1, j + 1) \notin DigitChars

\* C9: for a currency string (no whitespace but spaces) the extractor
\* returns the first digits[.digits] run found after removing '$', ',' and
\* spaces, negated exactly when the cleaned string begins with '-';
\* "$1,234.56" gives 1234.56 and "-$1,234.56" gives -1234.56.
C9_FirstRunSigned ==
    (numResult # Pending /\ numArg.t = "str" /\ ~Contains(numArg.s, "\t")) =>
        LET cleaned == RemoveChars(numArg.s, {"$", ",", " "})
            negative == Slice(cleaned, 1, 1) = "-"
            body == IF negative THEN Slice(cleaned, 2, Len(cleaned)) ELSE cleaned
        IN  /\ IF NoDigit(body) THEN numResult = PyNone
               ELSE LET i == CHOOSE p \in 1..Len(body) :
                                 /\ Slice(body, p, p) \in DigitChars
                                 /\ NoDigit(Slice(body, 1, p - 1))
                        j == RunEnd(body, i)
                        dot == Slice(body, j + 1, j + 1) = "."
                        frac == IF dot THEN Slice(body, j + 2, RunEnd(body, j + 2)) ELSE ""
                        magnitude == DecimalOf(Slice(body, i, j), frac)
                    IN  numResult = PyFloat(IF negative THEN DecNeg(magnitude) ELSE magnitude)
            /\ numArg.s = "$1,234.56" => numResult = PyFloat([m |-> 123456, e |-> 2])
            /\ numArg.s = "-$1,234.56" => numResult = PyFloat([m |-> 0 - 123456, e |-> 2])

C9_Witness ==
    /\ numArg = PyStr("-$1,234.56")
    /\ numResult = PyFloat([m |-> 0 - 123456, e |-> 2])

\* C10: in text-fallback mode the raw text
\* "Rental Income\n$1,500.00\nMaintenance\n$200.00" is normalised to exactly
\* {"Rental Income": "$1,500.00", "Maintenance": "$200.00"}.
C10_TextFallbackExample ==
    \A p \in PropertyIds :
        \A i \in 1..Len(properties[p].documents) :
            LET doc == properties[p].documents[i]
            IN  doc.raw_text = "Rental Income\n$1,500.00\nMaintenance\n$200.00" =>
                    {<<doc.extracted_fields[n].k, doc.extracted_fields[n].v>> :
                        n \in 1..Len(doc.extracted_fields)}
                        = {<<"Rental Income", PyStr("$1,500.00")>>,
                           <<"Maintenance", PyStr("$200.00")>>}

\* some document of the property is a malformed record
HasMalformed(collection, property_id) ==
    \E i \in 1..Len(collection[property_id].documents) :
        "extracted_data" \in DOMAIN collection[property_id].documents[i]

\* C11: whatever goes wrong while aggregating (an id that is no ObjectId, a
\* property that is not found, a malformed document record anywhere in the
\* list) the Aggregator returns a pair, never an exception, and the pair is
\* (0, 0), not the sum of the documents before the fault.
C11_FaultGivesZero ==
    runs > 0 =>
        /\ DOMAIN aggregated = {"total_income", "total_expenses"}
        /\ (\/ response.property_id \notin DOMAIN properties
            \/ ~properties[response.property_id].exists
            \/ HasMalformed(properties, response.property_id))
              => aggregated = ZeroTotals

C11_Witness ==
    /\ runs > 0
    /\ response.property_id = 1
    /\ properties[1].exists
    /\ Len(properties[1].documents) = 2
    /\ ~DocFault(properties[1].documents[1])
    /\ properties[1].documents[1].extracted_fields # <<>>
    /\ DocFault(properties[1].documents[2])
    /\ aggregated = ZeroTotals

\* a stored amount that is a number greater than or equal to 0
NonNegative(amount) == "m" \in DOMAIN amount /\ amount.m >= 0

\* C12: the Aggregator's total_income and total_expenses are never negative,
\* and after any sequence of property create, property patch, document upload
\* and document delete the stored rental_income and expenses of every
\* property are greater than or equal to 0.
C12_TotalsNeverNegative ==
    \A p \in PropertyIds :
        properties[p].exists =>
            /\ NonNegative(aggregate_property_totals_from_all_documents(properties, p).total_income)
            /\ NonNegative(aggregate_property_totals_from_all_documents(properties, p).total_expenses)
            /\ NonNegative(properties[p].rental_income)
            /\ NonNegative(properties[p].expenses)

\* request r is an upload through either route
IsUpload(r) == requests[r].op \in {"upload_document", "ocr_upload_document"}

\* request r has returned success
Succeeded(r) == requests[r].status \in {200, 201}

\* the document request r uploads is in the stored list
Holds(r) ==
    \E i \in DOMAIN properties[1].documents :
        properties[1].documents[i].id = requests[r].document_id

\* C13: overlapping uploads for one property are not serialized: whenever an
\* upload writes the document list, the stored list becomes the list that
\* request read plus its own document, whatever other requests wrote in
\* between (last write wins), so both uploads can succeed while the final
\* list holds only one of the two new documents.
C13_LastWriteWins ==
    [][\A r \in DOMAIN requests :
          (IsUpload(r) /\ requests[r].pc = "found" /\ requests'[r].pc # "found")
              => properties'[1].documents =
                     Append(requests[r].documents,
                            Document(requests[r].document_id, 1,
                                     requests[r].document_type,
                                     requests[r].extracted_data))]_vars

C13_Witness ==
    /\ requests # <<>>
    /\ \A r \in DOMAIN requests : IsUpload(r) /\ Succeeded(r)
    /\ Holds(1)
    /\ ~Holds(2)
    /\ Len(properties[1].documents) = 2

\* C14: register creates a user only if no user with that email exists; a
\* request for a registered email fails with 400 and leaves the user store
\* unchanged; and after any sequence of register requests, overlapping ones
\* for the same email included, the store holds at most one user per email.
C14_OneUserPerEmail ==
    /\ \A i, j \in DOMAIN users : users[i] = users[j] => i = j
    /\ \A r \in DOMAIN requests :
          requests[r].status = 400 => Registered(users, requests[r].email)

\* the fields of the only document of property 1
OnlyDocument == properties[1].documents[1].extracted_fields

\* C15: the "Total Expenses" field gives a document's expense amount only
\* when no individual expense field matched and parsed; as soon as one did,
\* whatever its value ($0.00 included), the amount is the de-duplicated sum
\* of the individual items and Total Expenses contributes nothing.
C15_TotalExpensesOnlyWithoutItems ==
    (runs > 0 /\ \E i \in 1..Len(OnlyDocument) : IsExpenseEntry(OnlyDocument[i]))
        => aggregated.total_expenses
               = SumEntries(OnlyDocument, SummedEntries(OnlyDocument))

\* an income-labelled field with a positive parsed value
IsIncomeEntry(f) ==
    /\ ~IsTotalExpensesKey(KeyLower(f))
    /\ IsIncomeKey(KeyLower(f))
    /\ Parsed(f).t = "float"
    /\ Parsed(f).v.m > 0

\* the key marks the preferred kind of income
IsPreferredKey(f) == Contains(KeyLower(f), "total") \/ Contains(KeyLower(f), "rental")

\* the stated selection: the first positive income entry is chosen, and a
\* later entry replaces it only when its key holds "total" or "rental" and
\* the chosen one is generic; chosen is the index chosen so far, 0 for none
RECURSIVE ChosenIncome(_, _, _)
ChosenIncome(fields, i, chosen) ==
    IF i > Len(fields) THEN chosen
    ELSE IF ~IsIncomeEntry(fields[i]) THEN ChosenIncome(fields, i + 1, chosen)
    ELSE IF chosen = 0 THEN ChosenIncome(fields, i + 1, i)
    ELSE IF IsPreferredKey(fields[i]) /\ ~IsPreferredKey(fields[chosen])
    THEN ChosenIncome(fields, i + 1, i)
    ELSE ChosenIncome(fields, i + 1, chosen)

IncomeOf(fields, chosen) == IF chosen = 0 THEN Zero ELSE Parsed(fields[chosen]).v

\* C16: a document contributes exactly one income value, chosen among its
\* income-labelled fields with a positive parsed value: a key holding
\* "total" or "rental" overrides a generic value chosen before, otherwise
\* the first positive match is kept; values are never added and zero or
\* negative values are never chosen.
C16_OneIncomeValue ==
    runs > 0 =>
        aggregated.total_income = IncomeOf(OnlyDocument, ChosenIncome(OnlyDocument, 1, 0))

\* the step is an upload through the OCR route
IsOcrUpload ==
    /\ response'.op = "ocr_upload_document"
    /\ nextId'.document = nextId.document + 1

\* the property has its old documents and, after them, the new document
Appended(old, new, document_id) ==
    /\ Len(new.documents) = Len(old.documents) + 1
    /\ SubSeq(new.documents, 1, Len(old.documents)) = old.documents
    /\ new.documents[Len(new.documents)].id = document_id

\* the document stored last has status ocr_success and fields
LastExtracted(prop) ==
    /\ prop.documents[Len(prop.documents)].status = "ocr_success"
    /\ prop.documents[Len(prop.documents)].extracted_fields # <<>>

\* C18: the OCR upload route rewrites a property's totals only when the OCR
\* status is ocr_success and the extracted field set is non-empty; for any
\* other status or an empty field set the document is still appended and
\* the stored rental_income and expenses are left unchanged.
C18_TotalsRewrittenOnlyWhenExtracted ==
    [][\A p \in PropertyIds :
          (IsOcrUpload /\ response'.property_id = p /\ properties[p].exists)
              => /\ Appended(properties[p], properties'[p], response'.document_id)
                 /\ ~LastExtracted(properties'[p])
                       => /\ properties'[p].rental_income = properties[p].rental_income
                          /\ properties'[p].expenses = properties[p].expenses]_vars

C18_Witness ==
    \E p \in PropertyIds :
        /\ properties[p].exists
        /\ response.op = "ocr_upload_document"
        /\ response.property_id = p
        /\ Len(properties[p].documents) = 1
        /\ properties[p].documents[1].status = "ocr_failed"
        /\ properties[p].rental_income = Dec(1200)
        /\ properties[p].expenses = Dec(300)

\* the request has made both writes of a recomputing handler
WroteBoth(request) == request.writes = 2

\* the handler of the request recomputes the totals
Recomputes(request) ==
    \/ request.op = "delete_document"
    \/ /\ request.op = "ocr_upload_document"
       /\ request.extracted_data.status = "ocr_success"
       /\ request.extracted_data.extracted_fields # <<>>

\* C20: in every upload or delete request that recomputes totals, the write
\* of the document list and the write of the recomputed totals are both
\* complete when the response is produced, and the request writes nothing
\* to the property after its response.
C20_WritesBeforeResponse ==
    /\ [](\A r \in DOMAIN requests :
             (Recomputes(requests[r]) /\ requests[r].status = 200)
                 => WroteBoth(requests[r]))
    /\ [][\A r \in DOMAIN requests :
             requests[r].status # 0 => requests'[r].writes = requests[r].writes]_vars

C20_Witness ==
    \E r \in DOMAIN requests :
        /\ requests[r].op = "delete_document"
        /\ requests[r].status = 200
        /\ requests[r].writes = 2
        /\ \A i \in DOMAIN properties[1].documents : properties[1].documents[i].id # 1

\* C17: when a label matches several expense-category patterns of the
\* normaliser, as "property management" matches the property-management and
\* the management pattern, the normalised field set holds only the canonical
\* key of the longest matching pattern, not a key for each matching pattern.
C17_LongestPatternOnly ==
    (/\ extracted # Pending
     /\ textract.key_values = <<>>
     /\ textract.raw_text = "Property Management: $100.00")
        => DictKeys(extracted.extracted_fields) = {"Property Management"}

\* the fields that carry the statement date: a non-empty value under a label
\* holding both "statement" and "date", or a label that is exactly "date"
StatementDateFields(fields) ==
    {i \in 1..Len(fields) :
        /\ Truthy(fields[i].v)
        /\ \/ Contains(Lower(fields[i].k), "statement") /\ Contains(Lower(fields[i].k), "date")
           \/ Lower(fields[i].k) = "date"}

\* C19: the statement date extractor gives precedence to fields over raw
\* text: when a field with a non-empty value has a label holding both
\* "statement" and "date", or a label that is exactly "date", that field's
\* value is returned verbatim whatever the raw text holds; the raw text is
\* searched only when there is no such field; and when neither yields a date
\* the result is "no date", never an exception.
C19_FieldsBeforeRawText ==
    (extracted # Pending /\ extracted.status = "ocr_success") =>
        /\ extracted.statement_date.t \in {"none", "str"}
        /\ StatementDateFields(extracted.extracted_fields) # {}
              => \E i \in StatementDateFields(extracted.extracted_fields) :
                    /\ extracted.statement_date = extracted.extracted_fields[i].v
                    /\ \A j \in StatementDateFields(extracted.extracted_fields) : i <= j
        /\ (/\ StatementDateFields(extracted.extracted_fields) = {}
            /\ ~Contains(Lower(extracted.raw_text), "date"))
              => extracted.statement_date = PyNone

C19_Witness ==
    /\ extracted # Pending
    /\ textract.raw_text = "Date: 31/01/2025"
    /\ textract.key_values = <<Field("Statement Date", PyStr("January 31, 2025"))>>
    /\ extracted.statement_date = PyStr("January 31, 2025")

\* the property exists and belongs to another user
NotOwner(user, property_id) ==
    properties[property_id].exists /\ properties[property_id].owner_id # user

\* the step is a get, a patch with a body of the set, a delete, a document
\* upload or a document delete that the user issues on the property
ActsOn(user, property_id, bodies) ==
    \/ get_property(user, property_id)
    \/ \E update_data \in bodies : update_property(user, property_id, update_data)
    \/ delete_property(user, property_id)
    \/ \E document_type \in DocumentTypeInputs :
           upload_document(user, property_id, document_type)
    \/ \E document_id \in 1..MaxUploads : delete_document(user, property_id, document_id)

\* the list route answers the user with properties of that user only
ListsOwn(user) ==
    get_properties(user) =>
        \A listed \in response'.result : properties[listed.id].owner_id = user

\* C21 as stated: every get, patch, delete, document upload and document
\* delete that a user issues on a property of another user is answered 404
\* and leaves the properties as they were, and the list route returns only
\* properties of the requester.
C21_NonOwnerGets404 ==
    [][\A user \in Users :
          /\ ListsOwn(user)
          /\ \A property_id \in PropertyIds :
                 NotOwner(user, property_id)
                     /\ ActsOn(user, property_id, UpdatePropertyInputs) =>
                         response'.status = 404 /\ properties' = properties]_vars

\* C21 amended: a request on a property of another user fails and leaves
\* the properties as they were; its answer is 404, except for a patch whose
\* body does not pass validation, which is answered 422 before the owner is
\* looked at; the list route returns only properties of the requester.
C21_NonOwnerFails ==
    [][\A user \in Users :
          /\ ListsOwn(user)
          /\ \A property_id \in PropertyIds :
                 NotOwner(user, property_id)
                     /\ ActsOn(user, property_id, UpdatePropertyInputs) =>
                         /\ properties' = properties
                         /\ \/ response'.status = 404
                            \/ response' = Response("update_property", 422, 0, 0)]_vars

\* a property with a document, and an upload to it answered 404: with the
\* property there, only a request of another user is answered so
C21_Witness ==
    /\ \E property_id \in PropertyIds :
           properties[property_id].exists /\ properties[property_id].documents # <<>>
    /\ \A property_id \in PropertyIds : properties[property_id].exists
    /\ response = Response("upload_document", 404, 0, 0)

\* C22: every document in every property's document list has a
\* document_type out of valid_types, whichever upload route stored it.
C22_DocumentTypesValid ==
    \A property_id \in PropertyIds :
        \A i \in 1..Len(properties[property_id].documents) :
            properties[property_id].documents[i].document_type \in valid_types

\* the status the claim gives for an outcome of the OCR engine
StatusFor(ocr) ==
    IF ~ocr.client THEN "aws_credentials_not_configured"
    ELSE IF ocr.raises THEN "ocr_failed"
    ELSE "ocr_success"

\* the document stored last
LastDocument(prop) == prop.documents[Len(prop.documents)]

\* C23: an OCR upload to an existing property succeeds whatever the OCR
\* engine does, and appends a document whose status is
\* aws_credentials_not_configured without a client, ocr_failed when the OCR
\* call raises and ocr_success otherwise; a document with one of the first
\* two statuses has no extracted fields.
C23_OcrFailureKeepsUpload ==
    [][\A p \in PropertyIds, ocr \in OcrResults :
          (/\ IsOcrUpload
           /\ response'.property_id = p
           /\ properties[p].exists
           /\ \E user \in Users, document_type \in OcrDocumentTypeInputs :
                  ocr_upload_document(user, p, document_type, ocr))
              => /\ response'.status = 200
                 /\ Appended(properties[p], properties'[p], response'.document_id)
                 /\ LastDocument(properties'[p]).status = StatusFor(ocr)
                 /\ StatusFor(ocr) # "ocr_success"
                       => LastDocument(properties'[p]).extracted_fields = <<>>]_vars

\* a property holding a document of an upload without OCR client and a
\* document of an upload whose OCR call raised
C23_Witness ==
    \E p \in PropertyIds :
        /\ properties[p].exists
        /\ response.op = "ocr_upload_document"
        /\ response.status = 200
        /\ Len(properties[p].documents) = 2
        /\ properties[p].documents[1].status = "aws_credentials_not_configured"
        /\ properties[p].documents[2].status = "ocr_failed"

\* C24: an upload through the OCR route appends a document to a property
\* and rewrites its totals only for the owner of the property; when another
\* user issues it, the property stays as it was.
C24_OcrUploadOnlyByOwner ==
    [][\A p \in PropertyIds, user \in Users :
          (/\ IsOcrUpload
           /\ response'.property_id = p
           /\ NotOwner(user, p)
           /\ \E document_type \in OcrDocumentTypeInputs, ocr \in OcrResults :
                  ocr_upload_document(user, p, document_type, ocr))
              => properties'[p] = properties[p]]_vars

\* the response is the success response of an upload route
UploadSucceeded ==
    \/ response.op = "upload_document" /\ response.status = 201
    \/ response.op = "ocr_upload_document" /\ response.status = 200

\* the property is stored and its document list holds a document of the id
HoldsDocument(collection, property_id, document_id) ==
    /\ property_id \in DOMAIN collection
    /\ collection[property_id].exists
    /\ \E i \in 1..Len(collection[property_id].documents) :
           collection[property_id].documents[i].id = document_id

\* C25: when an upload has returned its success response, the document it
\* returned is in the document list of the property it named.
C25_ReturnedDocumentStored ==
    UploadSucceeded => HoldsDocument(properties, response.property_id, response.document_id)

\* request r is a delete_document that has returned success
Deleted(r) == requests[r].op = "delete_document" /\ requests[r].status = 200

\* C26: once delete_document has returned success for a document id, the
\* document list of the property holds no document of that id, whatever the
\* other requests write afterwards.
C26_DeletedNeverReappears ==
    \A r \in DOMAIN requests : Deleted(r) => ~Holds(r)

\* every request is an OCR upload with extracted fields or a delete, and
\* every request has returned
AllRecomputedAndReturned ==
    /\ requests # <<>>
    /\ \A r \in DOMAIN requests : Recomputes(requests[r]) /\ requests[r].status # 0

\* C27: when OCR uploads with successful extraction and document deletes on
\* one property have all completed, in whatever interleaving, the stored
\* rental_income and expenses are the aggregator's output over the stored
\* document list.
C27_TotalsMatchAfterInterleaving ==
    AllRecomputedAndReturned =>
        properties = WriteTotals(properties, 1,
                         aggregate_property_totals_from_all_documents(properties, 1))

\* C28: the income and the expenses the aggregator computes for a document
\* are the same for every order in which the fields of the document are
\* visited.
C28_FieldOrderIrrelevant ==
    runs > 0 =>
        \A g \in Orderings(OnlyDocument) :
            /\ DocTotals(g).doc_income = aggregated.total_income
            /\ DocTotals(g).doc_expenses = aggregated.total_expenses

\* C29: a field is counted on at most one side: a document of a single
\* field has income or expenses, not both.
C29_FieldCountedOnce ==
    (runs > 0 /\ Len(OnlyDocument) = 1) =>
        aggregated.total_income = Zero \/ aggregated.total_expenses = Zero

\* the document of the id in the list
DocumentOf(documents, document_id) ==
    documents[CHOOSE i \in 1..Len(documents) : documents[i].id = document_id]

\* the upload that stored the document did not write the totals: the
\* property route writes them for a monthly_statement only, the OCR route
\* for status ocr_success with fields only
KeptTotals(doc, op) ==
    \/ op = "upload_document" /\ doc.document_type # "monthly_statement"
    \/ /\ op = "ocr_upload_document"
       /\ ~(doc.status = "ocr_success" /\ doc.extracted_fields # <<>>)

\* the last request was a successful upload to property p, and the step is
\* the successful delete of the document it stored
DeletesLastUpload(p) ==
    /\ UploadSucceeded
    /\ response.property_id = p
    /\ HoldsDocument(properties, p, response.document_id)
    /\ response' = Response("delete_document", 200, p, response.document_id)

\* C30: an upload followed at once by the delete of the uploaded document
\* leaves rental_income and expenses as they were before the upload. The
\* state after the upload keeps the totals from before it when the upload
\* did not write them, and the formula states the claim for those uploads.
C30_UploadThenDeleteRestores ==
    [][\A p \in PropertyIds :
          (/\ DeletesLastUpload(p)
           /\ KeptTotals(DocumentOf(properties[p].documents, response.document_id),
                         response.op))
              => StoredTotals(properties', p) = StoredTotals(properties, p)]_vars

====
